---------------------------- MODULE Spec2Model ----------------------------
(***************************************************************************)
(* Model of the Quran Foundation proxy service (services/quranService.js): *)
(* the OAuth2 client-credentials token held by the singleton QuranService, *)
(* the NodeCache verse cache in front of it, and the asynchronous          *)
(* getVerses / getVerseDetails / health invocations that share them on the *)
(* Node.js event loop.  One action is one run-to-completion step of the    *)
(* event loop: the code from one await to the next.  The routes behind the *)
(* Firebase authentication middleware (middleware/authMiddleware.js,       *)
(* models/User.js, routes/progressRoutes.js) are modelled the same way,    *)
(* over the documents of the users collection.                             *)
(*                                                                         *)
(* Strings that the code concatenates are sequences of one-character       *)
(* strings, so that the template literals of the cache keys are modelled   *)
(* by what they produce.  JavaScript values of mixed type (null, undefined,*)
(* NaN, number, string) are records with a "kind" field.                   *)
(***************************************************************************)
EXTENDS Integers, Sequences, FiniteSets, TLC

(***************************************************************************)
(* Bounds of the model.                                                    *)
(***************************************************************************)
\* invocations (getVerses, getVerseDetails, health) started in one behaviour
MaxCalls == 2
\* invocations of getVerses on one query started in one behaviour of SpecRace
MaxSameCalls == 3
\* clock advances in one behaviour
MaxTicks == 2
\* search hits the upstream reports for one query
MaxResults == 2
\* requests to the protected routes in one behaviour of SpecAccounts
MaxRequests == 3
\* requests to the protected routes in one behaviour of SpecSequential
MaxSequential == 4

\* request slots: invocations that can be in flight at the same time
Procs == {"r1", "r2"}

(***************************************************************************)
(* Program constants.                                                      *)
(***************************************************************************)
\* quranService.js:65  const expiryBuffer = 30 * 1000
expiryBuffer == 30 * 1000
\* quranService.js:21  stdTTL: 86400 (seconds)
stdTTL == 86400

(***************************************************************************)
(* Inputs and upstream answers.                                            *)
(***************************************************************************)
\* expires_in values (seconds) the authorization endpoint reports
ExpiresIn == {30, 60}
\* arabicWord arguments: a word, and a word that contains a colon
Words == { <<"w">>, <<"w", ":", "2">> }
Sizes == {2}
\* translationIds arguments: one id, and a value that contains a colon
Translations == { <<"1">>, <<"2", ":", "1">> }
Pages == {1}
\* verseRef arguments
VerseRefs == { <<"2", ":", "5">> }

(***************************************************************************)
(* JavaScript values.                                                      *)
(***************************************************************************)
Null == [kind |-> "null", n |-> 0]
Undefined == [kind |-> "undefined", n |-> 0]
NaN == [kind |-> "NaN", n |-> 0]
Num(n) == [kind |-> "number", n |-> n]
\* the access_token string issued by grant g; every grant issues a new one
Str(g) == [kind |-> "string", n |-> g]

\* JavaScript truthiness of the values above (no grant issues "")
Truthy(v) == \/ v.kind = "string"
             \/ v.kind = "number" /\ v.n # 0

\* Date.now() + expires_in * 1000  (quranService.js:95)
AddMs(t, expires_in) ==
    IF expires_in.kind = "number" THEN Num(t + expires_in.n * 1000) ELSE NaN

\* a hydrated verse, as detailsResponse.data.verse
Verse(k) == [kind |-> "verse", n |-> k]
\* a detail call that has not been answered yet
Pending == [kind |-> "pending", n |-> 0]

\* pagination objects
NullPagination ==
    [kind |-> "null", current_page |-> 0, total_pages |-> 0, total_records |-> 0]
Pagination(cp, tp, tr) ==
    [kind |-> "object", current_page |-> cp, total_pages |-> tp, total_records |-> tr]

\* the result objects of getVerses and getVerseDetails; NoResult stands for
\* undefined, which is what a cache miss reads
NoResult == [success |-> FALSE, results |-> <<>>, query |-> <<>>,
             pagination |-> NullPagination]
VersesResult(vs, q, pg) ==
    [success |-> TRUE, results |-> vs, query |-> q, pagination |-> pg]
VerseResult(v) ==
    [success |-> TRUE, results |-> <<v>>, query |-> <<>>,
     pagination |-> NullPagination]

(***************************************************************************)
(* isTokenValid  (quranService.js:58-68)                                   *)
(***************************************************************************)
isTokenValidGE(tok, exp, t) ==
    IF ~Truthy(tok) \/ ~Truthy(exp) THEN FALSE
    ELSE exp.n - t >= expiryBuffer

isTokenValid(tok, exp, t) ==
    IF ~Truthy(tok) \/ ~Truthy(exp) THEN FALSE
    ELSE exp.n - t > expiryBuffer


(***************************************************************************)
(* Template literals.                                                      *)
(***************************************************************************)
DigitChars == <<"0", "1", "2", "3", "4", "5", "6", "7", "8", "9">>

\* String(n) for a non-negative integer, as ${size} and ${page} format it
RECURSIVE numToStr(_)
numToStr(n) ==
    IF n < 10 THEN <<DigitChars[n + 1]>>
    ELSE numToStr(n \div 10) \o <<DigitChars[(n % 10) + 1]>>

\* `verses:${arabicWord}:${size}:${translationIds}:${page}`
\* (quranService.js:126)
cacheKey(arabicWord, size, translationIds, page) ==
    <<"v", "e", "r", "s", "e", "s", ":">> \o arabicWord \o <<":">>
        \o numToStr(size) \o <<":">> \o translationIds \o <<":">>
        \o numToStr(page)

\* `verse:${verseRef}:${translationIds}`  (quranService.js:231)
verseCacheKey(verseRef, translationIds) ==
    <<"v", "e", "r", "s", "e", ":">> \o verseRef \o <<":">> \o translationIds

(***************************************************************************)
(* NodeCache({stdTTL: 86400, checkperiod: 3600, useClones: false}).  The   *)
(* cache is a function from the keys it holds to entries [v, t]: v is the  *)
(* stored value (by reference, useClones is false) and t the instant in ms *)
(* after which the entry is expired.  The fields "at" and "by" are history:*)
(* the instant of the set and the request slot that made it.               *)
(***************************************************************************)
\* an entry is live at instant t  (node-cache _check: t !== 0 && t < now)
LiveNoCheck(cache, key, t) == key \in DOMAIN cache

Live(cache, key, t) == key \in DOMAIN cache /\ ~(cache[key].t < t)

\* get(key) at instant t: the stored value, or undefined (NoResult)
cacheGet(cache, key, t) ==
    IF Live(cache, key, t) THEN cache[key].v ELSE NoResult

\* the cache after get(key) at instant t: an expired entry is deleted
cacheAfterTake(cache, key, t) ==
    [k \in DOMAIN cache \ {key} |-> cache[k]]

cacheAfterGetTouch(cache, key, t) ==
    IF key \in DOMAIN cache /\ ~Live(cache, key, t)
    THEN [k \in DOMAIN cache \ {key} |-> cache[k]]
    ELSE IF key \in DOMAIN cache
    THEN [cache EXCEPT ![key].t = t + stdTTL * 1000]
    ELSE cache

cacheAfterGet(cache, key, t) ==
    IF key \in DOMAIN cache /\ ~Live(cache, key, t)
    THEN [k \in DOMAIN cache \ {key} |-> cache[k]]
    ELSE cache

\* the cache after set(key, value) at instant t by request slot s
cacheSetTTLinMs(cache, key, value, t, s) ==
    [k \in DOMAIN cache \cup {key} |->
        IF k = key THEN [v |-> value, t |-> t + stdTTL, at |-> t, by |-> s]
        ELSE cache[k]]

cacheSetIfAbsent(cache, key, value, t, s) ==
    IF key \in DOMAIN cache /\ Live(cache, key, t) THEN cache
    ELSE [k \in DOMAIN cache \cup {key} |->
             IF k = key THEN [v |-> value, t |-> t + stdTTL * 1000,
                              at |-> t, by |-> s]
             ELSE cache[k]]

cacheSet(cache, key, value, t, s) ==
    [k \in DOMAIN cache \cup {key} |->
        IF k = key THEN [v |-> value, t |-> t + stdTTL * 1000,
                         at |-> t, by |-> s]
        ELSE cache[k]]

\* the cache after the periodic check (checkperiod) at instant t
cacheCheckData(cache, t) ==
    [k \in {j \in DOMAIN cache : Live(cache, j, t)} |-> cache[k]]


(***************************************************************************)
(* Upstream answers.                                                       *)
(***************************************************************************)
\* search result lists: no hit, or the verse keys MaxResults, ..., 2, 1, so
\* that search order differs from the order of the keys
SearchLists ==
    { [i \in 1..n |-> MaxResults + 1 - i] : n \in {0, MaxResults} }

\* answers of POST /oauth2/token: a transport error, a non-2xx status, a 2xx
\* answer whose body is null, a 2xx answer with a grant, or a 2xx answer with
\* a JSON object body that has neither access_token nor expires_in
TokenAnswers(g) ==
    { [status |-> st, access_token |-> Undefined, expires_in |-> Undefined] :
        st \in {"neterr", "non2xx", "nullbody"} }
    \cup
    { [status |-> "2xx", access_token |-> Str(g), expires_in |-> Num(x)] :
        x \in ExpiresIn }
    \cup
    { [status |-> "2xx", access_token |-> Undefined, expires_in |-> Undefined] }

\* answers of GET /search: an error (401, or any other failure including a
\* transport error), or a body with or without the search object
SearchAnswers(page) ==
    { [status |-> st, search |-> FALSE, results |-> <<>>,
       pagination |-> NullPagination] : st \in {"401", "error"} }
    \cup
    { [status |-> "2xx", search |-> FALSE, results |-> <<>>,
       pagination |-> NullPagination] }
    \cup
    { [status |-> "2xx", search |-> TRUE, results |-> l, pagination |-> pg] :
        l \in SearchLists,
        pg \in {NullPagination, Pagination(page, 1, MaxResults)} }

\* answers of GET /verses/by_key/<key>: an error, a body with the verse, or a
\* 2xx body without a verse field
DetailAnswers(k) ==
    { [status |-> st, verse |-> Undefined] : st \in {"401", "error"} }
    \cup
    { [status |-> "2xx", verse |-> v] : v \in {Verse(k), Undefined} }

(***************************************************************************)
(* State.                                                                  *)
(***************************************************************************)
VARIABLES
    now,          \* Date.now(), in ms
    ticks,        \* clock advances so far
    accessToken,  \* this.accessToken
    tokenExpiry,  \* this.tokenExpiry
    grantOf,      \* history: the grant answers accessToken and tokenExpiry
                  \* were taken from
    issued,       \* 2xx answers the authorization endpoint has given
    verseCache,   \* this.verseCache
    started,      \* invocations started so far
    req,          \* the invocation in each request slot
    environment,  \* this.environment
    authUrl,      \* this.authUrl
    apiBaseUrl,   \* this.apiBaseUrl
    users,        \* the documents of the collection 'users'
    sess,         \* the request to a protected route in each request slot
    odm           \* how the installed Mongoose writes learnedWords on save

vars == <<now, ticks, accessToken, tokenExpiry, grantOf, issued, verseCache,
          started, req, environment, authUrl, apiBaseUrl, users, sess, odm>>

\* the fields the constructor resolves from process.env.QF_ENV
endpoints == <<environment, authUrl, apiBaseUrl>>

\* the state behind the protected routes
accounts == <<users, sess, odm>>

\* process.env.QF_ENV: unset, or set to a string
EnvUnset == [present |-> FALSE, s |-> ""]
EnvSet(s) == [present |-> TRUE, s |-> s]
EnvTags ==
    { EnvUnset, EnvSet(""), EnvSet("prelive"), EnvSet("production"),
      EnvSet("Production"), EnvSet("staging") }

\* process.env.QF_ENV || 'prelive'  (quranService.js:12)
OrPrelive(tag) == IF tag.present /\ tag.s # "" THEN tag.s ELSE "prelive"

\* getAuthUrl (38-42) and getApiBaseUrl (48-52)
getAuthUrl(env) ==
    IF env = "production" THEN "https://oauth2.quran.foundation"
    ELSE "https://prelive-oauth2.quran.foundation"

getApiBaseUrlUnlessPrelive(env) ==
    IF env # "prelive" THEN "https://apis.quran.foundation"
    ELSE "https://apis-prelive.quran.foundation"

getApiBaseUrl(env) ==
    IF env = "production" THEN "https://apis.quran.foundation"
    ELSE "https://apis-prelive.quran.foundation"

\* the constructor (9-32) with process.env.QF_ENV = tag
constructor(tag) ==
    /\ environment = OrPrelive(tag)
    /\ authUrl = getAuthUrl(OrPrelive(tag))
    /\ apiBaseUrl = getApiBaseUrl(OrPrelive(tag))
    /\ accessToken = Null
    /\ tokenExpiry = Null
    /\ verseCache = <<>>

\* a free request slot
Idle ==
    [op |-> "idle", pc |-> "idle", args |-> <<>>, key |-> <<>>,
     token |-> Null, results |-> <<>>, pagination |-> NullPagination,
     det |-> <<>>, outcome |-> "none", ret |-> NoResult, err |-> "none",
     tokenValid |-> "none",
     \* history of the invocation: what its cache read found, whether
     \* ensureValidToken returned the held token, how its grant request was
     \* answered and whether another grant request was in flight then,
     \* whether a search or detail call was answered 401, the
     \* upstream calls it made, whether it stored its result, and when
     hit |-> FALSE, sawExpired |-> FALSE, hadToken |-> FALSE,
     tokenAnswer |-> "none", raced |-> FALSE, saw401 |-> FALSE,
     nToken |-> 0, nSearch |-> 0, nDetail |-> 0,
     stored |-> FALSE, doneAt |-> 0]

(***************************************************************************)
(* The protected routes: data.  A document of the collection 'users'       *)
(* (models/User.js:7-49) keeps the fields the routes compute with, the     *)
(* version key __v that Mongoose maintains, and the number of updates      *)
(* applied to it (lastActive is rewritten by every update).  The documents *)
(* of the collection 'words' (part_004:7-51) are fixed.                    *)
(***************************************************************************)
\* the ids of the seeded words, and their frequencies
WordIds == {1, 2}
frequency(id) == IF id = 1 THEN 5 ELSE 3

\* Word.findOne({ id }) finds a word (progressRoutes.js:23, 74)
WordFindOne(id) == id \in WordIds

\* Word.find({ id: { $in: wordIds } }): every word found once, in the order
\* of the collection (progressRoutes.js:210)
WordFind(wordIds) ==
    SelectSeq(<<1, 2>>, LAMBDA id : \E i \in DOMAIN wordIds : wordIds[i] = id)

\* the two ways a Mongoose release persists an array that was changed by
\* push() and then reassigned to an equal array by the pre('save') hook
\* (User.js:62, 126): the $push of the new elements, applied without a
\* version check, or the whole array, applied only when __v is unchanged
ArrayWrites == {"$push", "$set"}

\* a new document (User.js:103-110)
NewUser(uid) ==
    [firebaseUid |-> uid, learnedWords |-> <<>>, totalFrequencyKnown |-> 0,
     v |-> 0, saves |-> 0]

\* req.user: no document, or the copy of document id loaded by this request,
\* with the array operation its next save will send
NoUser ==
    [present |-> FALSE, id |-> 0, learnedWords |-> <<>>,
     totalFrequencyKnown |-> 0, v |-> 0, op |-> "none", pushed |-> <<>>]

Loaded(id, doc) ==
    [present |-> TRUE, id |-> id, learnedWords |-> doc.learnedWords,
     totalFrequencyKnown |-> doc.totalFrequencyKnown, v |-> doc.v,
     op |-> "none", pushed |-> <<>>]

\* this.learnedWords.includes(wordId)  (User.js:75-77)
hasLearnedWordNever(user, wordId) == FALSE

hasLearnedWord(user, wordId) ==
    \E i \in DOMAIN user.learnedWords : user.learnedWords[i] = wordId

\* addLearnedWord up to its save (User.js:60-64)
addLearnedWord(user, wordId, freq) ==
    IF ~hasLearnedWord(user, wordId)
    THEN [user EXCEPT !.learnedWords = Append(@, wordId),
                      !.totalFrequencyKnown = @ + freq,
                      !.op = IF @ = "$set" THEN @ ELSE "$push",
                      !.pushed = Append(@, wordId)]
    ELSE user

\* the removal of DELETE /api/progress/:wordId up to its save
\* (progressRoutes.js:92-94): the array is replaced by the filtered one
unlearnKeepTotal(user, wordId, freq) ==
    [user EXCEPT !.learnedWords = SelectSeq(@, LAMBDA id : id # wordId),
                 !.op = "$set", !.pushed = <<>>]

unlearn(user, wordId, freq) ==
    [user EXCEPT !.learnedWords = SelectSeq(@, LAMBDA id : id # wordId),
                 !.totalFrequencyKnown = @ - freq,
                 !.op = "$set", !.pushed = <<>>]

\* [...new Set(list)]: the first occurrence of every element, in order
RECURSIVE dedupe(_)
dedupe(list) ==
    IF list = <<>> THEN <<>>
    ELSE LET init == dedupe(SubSeq(list, 1, Len(list) - 1))
             last == list[Len(list)]
         IN  IF \E i \in DOMAIN init : init[i] = last THEN init
             ELSE Append(init, last)

\* the pre('save') hook (User.js:124-128); an array that the hook changed is
\* written whole
preSave(user) ==
    IF dedupe(user.learnedWords) = user.learnedWords THEN user
    ELSE [user EXCEPT !.learnedWords = dedupe(@), !.op = "$set",
                      !.pushed = <<>>]

\* document.save() of the copy user, applied to the stored document doc by
\* a Mongoose that writes arrays as mode: whether it fails (the validator
\* min: 0 of totalFrequencyKnown, User.js:27-31, or a VersionError) and the
\* stored document after it.  Only the paths the request modified are
\* written: lastActive always, learnedWords and totalFrequencyKnown when
\* the copy was changed by addLearnedWord or by the removal
save(user, doc, mode) ==
    LET u == preSave(user)
        whole == u.op = "$set" \/ (u.op = "$push" /\ mode = "$set")
        invalid == u.totalFrequencyKnown < 0
        conflict == whole /\ doc.v # u.v
    IN  [threw |-> invalid \/ conflict,
         err |-> IF invalid THEN "ValidationError" ELSE "VersionError",
         doc |-> IF invalid \/ conflict THEN doc
                 ELSE [doc EXCEPT
                         !.learnedWords =
                             IF whole THEN u.learnedWords
                             ELSE IF u.op = "$push" THEN @ \o u.pushed
                             ELSE @,
                         !.totalFrequencyKnown =
                             IF u.op = "none" THEN @
                             ELSE u.totalFrequencyKnown,
                         !.v = IF u.op = "none" THEN @ ELSE @ + 1,
                         !.saves = @ + 1],
         user |-> [u EXCEPT !.v = IF u.op = "none" THEN @ ELSE @ + 1,
                            !.op = "none", !.pushed = <<>>]]

\* this.findOne({ firebaseUid: uid }) (User.js:100): the index of the
\* document in the collection, 0 when there is none
findOne(docs, uid) ==
    IF \E i \in DOMAIN docs : docs[i].firebaseUid = uid
    THEN CHOOSE i \in DOMAIN docs :
            /\ docs[i].firebaseUid = uid
            /\ \A j \in DOMAIN docs : docs[j].firebaseUid = uid => i <= j
    ELSE 0

\* the messages of the answers
MsgNoToken == "No authorization token provided"
MsgTokenFormat == "Invalid authorization token format"
MsgTokenExpired == "Token has expired. Please login again."
MsgTokenRevoked == "Token has been revoked. Please login again."
MsgTokenInvalid == "Invalid or expired token"
MsgAuthFailed == "Authentication failed"
MsgWordIdRequired == "wordId is required"
MsgWordIdsRequired == "wordIds must be a non-empty array"
MsgWordNotFound == "Word not found"
MsgNoWords == "No valid words found"
MsgAlreadyLearned == "Word already marked as learned"
MsgNotLearned == "Word is not in learned list"
MsgLearned == "Word marked as learned"
MsgRemoved == "Word removed from learned list"
MsgBatch == "words marked as learned"

\* a free request slot of the protected routes
NoSession ==
    [route |-> "none", pc |-> "idle", idToken |-> <<>>, uid |-> "",
     user |-> NoUser, wordId |-> 0, wordIds |-> <<>>, words |-> <<>>,
     status |-> 0, message |-> "",
     \* history: the words the request has added, whether next() was called,
     \* and whether verifyIdToken accepted the token
     learned |-> {}, next |-> FALSE, verified |-> FALSE]

\* the collection and the request slots when the server starts, with a
\* Mongoose that writes arrays as mode
Connected(mode) ==
    /\ users = <<>>
    /\ sess = [p \in Procs |-> NoSession]
    /\ odm = mode

\* the state around the service when it is constructed
Started ==
    /\ now = 0
    /\ ticks = 0
    /\ grantOf = [tok |-> 0, exp |-> 0]
    /\ issued = 0
    /\ started = 0
    /\ req = [p \in Procs |-> Idle]

\* the service constructed with QF_ENV unset
Init == constructor(EnvUnset) /\ Started /\ Connected("$set")

\* the service constructed with any value of QF_ENV
InitEnv ==
    (\E tag \in EnvTags : constructor(tag)) /\ Started /\ Connected("$set")

\* the server with either kind of Mongoose installed
InitAccounts ==
    constructor(EnvUnset) /\ Started /\ \E mode \in ArrayWrites : Connected(mode)


(***************************************************************************)
(* Steps shared by the invocations.                                        *)
(***************************************************************************)
\* the invocation ends (returns or throws) at the current step
Done(r) == [r EXCEPT !.pc = "done", !.doneAt = now]

\* the messages of the errors the three callers end with
ErrAuth == "Failed to authenticate with Quran Foundation API"
ErrVerses == "Failed to fetch verses from Quran Foundation API"
ErrVerse == "Failed to fetch verse details"

\* the catch blocks: getVerses (216-220) and getVerseDetails (273-276)
\* replace any error by their own; the health route (part_002:318-324)
\* reports the message of the error it caught
Catch(r, msg) ==
    Done([r EXCEPT !.outcome = "error",
                   !.err = CASE r.op = "getVerses" -> ErrVerses
                             [] r.op = "getVerseDetails" -> ErrVerse
                             [] OTHER -> msg])

\* the code after `await this.ensureValidToken()` returned tok, with the
\* token state (at, te) at instant t: getVerses issues the search call
\* (141-153), getVerseDetails the detail call (247-259), the health route
\* answers with isTokenValid() (part_002:308-317)
Continue(r, tok, at, te, t) ==
    CASE r.op = "getVerses" ->
            [r EXCEPT !.token = tok, !.pc = "search", !.nSearch = @ + 1]
      [] r.op = "getVerseDetails" ->
            [r EXCEPT !.token = tok, !.pc = "verse", !.nDetail = @ + 1]
      [] OTHER ->
            Done([r EXCEPT !.token = tok, !.outcome = "ok",
                  !.tokenValid = IF isTokenValid(at, te, t) THEN "true"
                                 ELSE "false"])

\* ensureValidToken (109-114) called by invocation r: the held token is
\* returned and the caller continues in the same step, or getAccessToken
\* posts the grant request and the invocation waits for the answer
ensureValidTokenAlways(r) == [r EXCEPT !.pc = "token", !.nToken = @ + 1]

ensureValidToken(r) ==
    IF ~isTokenValid(accessToken, tokenExpiry, now)
    THEN [r EXCEPT !.pc = "token", !.nToken = @ + 1]
    ELSE Continue([r EXCEPT !.hadToken = TRUE], accessToken,
                  accessToken, tokenExpiry, now)

\* getAccessToken (74-103) once the grant request of grant g is answered with
\* ans at instant t, the token state being cur: the new token state, whether
\* it threw, and the value it returned
getAccessTokenKeepLater(ans, g, t, cur) ==
    IF ans.status # "2xx"
    THEN [threw |-> TRUE, value |-> Undefined, accessToken |-> cur.accessToken,
          tokenExpiry |-> cur.tokenExpiry, grantOf |-> cur.grantOf]
    ELSE LET e == AddMs(t, ans.expires_in)
             keep == cur.tokenExpiry.kind = "number" /\ e.kind = "number"
                     /\ cur.tokenExpiry.n > e.n
         IN  [threw |-> FALSE, value |-> ans.access_token,
              accessToken |-> ans.access_token,
              tokenExpiry |-> IF keep THEN cur.tokenExpiry ELSE e,
              grantOf |-> [tok |-> g,
                           exp |-> IF keep THEN cur.grantOf.exp ELSE g]]

getAccessToken(ans, g, t, cur) ==
    IF ans.status # "2xx"
    THEN [threw |-> TRUE, value |-> Undefined, accessToken |-> cur.accessToken,
          tokenExpiry |-> cur.tokenExpiry, grantOf |-> cur.grantOf]
    ELSE [threw |-> FALSE, value |-> ans.access_token,
          accessToken |-> ans.access_token,
          tokenExpiry |-> AddMs(t, ans.expires_in),
          grantOf |-> [tok |-> g, exp |-> g]]

\* how the history records a grant answer
TokenAnswerKind(ans) ==
    IF ans.status # "2xx" THEN ans.status
    ELSE IF ans.access_token = Undefined \/ ans.expires_in = Undefined
         THEN "malformed" ELSE "ok"

(***************************************************************************)
(* Actions.                                                                *)
(***************************************************************************)
\* a new invocation in slot p, that read the cache under key
Enter(p, op, args, key) ==
    [Idle EXCEPT !.op = op, !.args = args, !.key = key,
                 !.sawExpired = key \in DOMAIN verseCache
                                /\ verseCache[key].t < now]

\* the cache read that opens getVerses (129-133) and getVerseDetails
\* (234-238): a hit returns the stored value, a miss goes on to
\* ensureValidToken
ReadCache(p, r) ==
    LET cachedData == cacheGet(verseCache, r.key, now)
    IN  /\ verseCache' = cacheAfterGet(verseCache, r.key, now)
        /\ req' = [req EXCEPT ![p] =
                     IF cachedData.success
                     THEN Done([r EXCEPT !.hit = TRUE, !.ret = cachedData,
                                         !.outcome = "ok"])
                     ELSE ensureValidToken(r)]

\* getVerses(arabicWord, size, translationIds, page) is called (124-153)
getVerses(p, arabicWord, size, translationIds, page) ==
    /\ req[p].pc = "idle"
    /\ ReadCache(p, Enter(p, "getVerses",
                          <<arabicWord, size, translationIds, page>>,
                          cacheKey(arabicWord, size, translationIds, page)))
    /\ started' = started + 1
    /\ UNCHANGED <<accounts, endpoints, now, ticks, accessToken, tokenExpiry, grantOf, issued>>

\* getVerseDetails(verseRef, translationIds) is called (229-259)
getVerseDetails(p, verseRef, translationIds) ==
    /\ req[p].pc = "idle"
    /\ ReadCache(p, Enter(p, "getVerseDetails", <<verseRef, translationIds>>,
                          verseCacheKey(verseRef, translationIds)))
    /\ started' = started + 1
    /\ UNCHANGED <<accounts, endpoints, now, ticks, accessToken, tokenExpiry, grantOf, issued>>

\* GET /api/quran/health is requested (part_002:303-326)
health(p) ==
    /\ req[p].pc = "idle"
    /\ req' = [req EXCEPT ![p] = ensureValidToken(Enter(p, "health", <<>>, <<>>))]
    /\ started' = started + 1
    /\ UNCHANGED <<accounts, endpoints, now, ticks, accessToken, tokenExpiry, grantOf, issued,
                   verseCache>>

\* the grant request of invocation p is answered (84-102)
TokenResponse(p, ans) ==
    /\ req[p].pc = "token"
    /\ LET g == issued + 1
           res == getAccessToken(ans, g, now,
                      [accessToken |-> accessToken,
                       tokenExpiry |-> tokenExpiry, grantOf |-> grantOf])
           r == [req[p] EXCEPT !.tokenAnswer = TokenAnswerKind(ans),
                               !.raced = \E q \in Procs \ {p} :
                                             req[q].pc = "token"]
       IN  /\ accessToken' = res.accessToken
           /\ tokenExpiry' = res.tokenExpiry
           /\ grantOf' = res.grantOf
           /\ issued' = IF ans.status = "2xx" THEN g ELSE issued
           /\ req' = [req EXCEPT ![p] =
                        IF res.threw THEN Catch(r, ErrAuth)
                        ELSE Continue(r, res.value, res.accessToken,
                                      res.tokenExpiry, now)]
    /\ UNCHANGED <<accounts, endpoints, now, ticks, verseCache, started>>


\* the catch block of getVerses / getVerseDetails for a failed search or
\* detail call with the given status (216-220, 273-276): the error bubbles
\* up, nothing is invalidated and nothing is retried
CatchUpstreamRetry(r, status) ==
    IF status = "401" /\ ~r.saw401
    THEN [r EXCEPT !.saw401 = TRUE,
                   !.nSearch = IF r.op = "getVerses" THEN @ + 1 ELSE @,
                   !.nDetail = IF r.op = "getVerses" THEN @ ELSE @ + 1]
    ELSE Catch([r EXCEPT !.saw401 = @ \/ status = "401"], ErrVerses)

CatchUpstreamRetryAlways(r, status) ==
    [r EXCEPT !.saw401 = @ \/ status = "401",
              !.nSearch = IF r.op = "getVerses" THEN @ + 1 ELSE @,
              !.nDetail = IF r.op = "getVerses" THEN @ ELSE @ + 1]

CatchUpstream(r, status) ==
    Catch([r EXCEPT !.saw401 = @ \/ status = "401"], ErrVerses)

\* detailedVerses.filter(v => v !== null)  (196)
validVersesNoFilter(detailedVerses) == detailedVerses

validVerses(detailedVerses) ==
    SelectSeq(detailedVerses, LAMBDA v : v # Null)

\* pagination || { current_page, total_pages, total_records }  (163, 207)
OrDefaultKeepNull(pagination, page, total_pages, total_records) == pagination

OrDefault(pagination, page, total_pages, total_records) ==
    IF pagination.kind # "null" THEN pagination
    ELSE Pagination(page, total_pages, total_records)

\* the search call of invocation p is answered (141-193)
SearchResponseStoreEmpty(p, ans) ==
    /\ req[p].pc = "search"
    /\ LET r == req[p]
           searchResults == IF ans.search THEN ans.results ELSE <<>>
           pagination == IF ans.search THEN ans.pagination ELSE NullPagination
           empty == VersesResult(<<>>, r.args[1],
                                 OrDefault(pagination, r.args[4], 0, 0))
       IN  /\ req' = [req EXCEPT ![p] =
                 IF ans.status # "2xx" THEN CatchUpstream(r, ans.status)
                 ELSE IF Len(searchResults) = 0
                 THEN Done([r EXCEPT !.outcome = "ok", !.ret = empty,
                                     !.stored = TRUE])
                 ELSE [r EXCEPT !.pc = "details",
                                !.results = searchResults,
                                !.pagination = pagination,
                                !.det = [i \in 1..Len(searchResults) |-> Pending],
                                !.nDetail = Len(searchResults)]]
           /\ verseCache' =
                 IF ans.status = "2xx" /\ Len(searchResults) = 0
                 THEN cacheSet(verseCache, r.key, empty, now, p)
                 ELSE verseCache
    /\ UNCHANGED <<accounts, endpoints, now, ticks, accessToken, tokenExpiry, grantOf, issued,
                   started>>

SearchResponseStoreError(p, ans) ==
    /\ req[p].pc = "search"
    /\ LET r == req[p]
           searchResults == IF ans.search THEN ans.results ELSE <<>>
           pagination == IF ans.search THEN ans.pagination ELSE NullPagination
           empty == VersesResult(<<>>, r.args[1],
                                 OrDefault(pagination, r.args[4], 0, 0))
       IN  /\ req' = [req EXCEPT ![p] =
                 IF ans.status # "2xx" THEN CatchUpstream(r, ans.status)
                 ELSE IF Len(searchResults) = 0
                 THEN Done([r EXCEPT !.outcome = "ok", !.ret = empty])
                 ELSE [r EXCEPT !.pc = "details",
                                !.results = searchResults,
                                !.pagination = pagination,
                                !.det = [i \in 1..Len(searchResults) |-> Pending],
                                !.nDetail = Len(searchResults)]]
           /\ verseCache' =
                 IF ans.status # "2xx"
                 THEN cacheSet(verseCache, r.key, empty, now, p)
                 ELSE verseCache
    /\ UNCHANGED <<accounts, endpoints, now, ticks, accessToken, tokenExpiry, grantOf, issued,
                   started>>

SearchResponse(p, ans) ==
    /\ req[p].pc = "search"
    /\ LET r == req[p]
           searchResults == IF ans.search THEN ans.results ELSE <<>>
           pagination == IF ans.search THEN ans.pagination ELSE NullPagination
       IN  req' = [req EXCEPT ![p] =
             IF ans.status # "2xx" THEN CatchUpstream(r, ans.status)
             ELSE IF Len(searchResults) = 0
             THEN Done([r EXCEPT !.outcome = "ok",
                          !.ret = VersesResult(<<>>, r.args[1],
                                     OrDefault(pagination, r.args[4], 0, 0))])
             ELSE [r EXCEPT !.pc = "details",
                            !.results = searchResults,
                            !.pagination = pagination,
                            !.det = [i \in 1..Len(searchResults) |-> Pending],
                            !.nDetail = Len(searchResults)]]
    /\ UNCHANGED <<accounts, endpoints, now, ticks, accessToken, tokenExpiry, grantOf, issued,
                   verseCache, started>>

\* the result object getVerses assembles from the settled detail calls
\* (196-208)
Assemble(r, detailedVerses) ==
    VersesResult(validVerses(detailedVerses), r.args[1],
                 OrDefault(r.pagination, r.args[4], 1,
                           Len(validVerses(detailedVerses))))

\* the detail call for the i-th search result of invocation p is answered
\* (170-191); when it is the last one, Promise.all resolves and getVerses
\* assembles, stores and returns the result in the same step (196-214)
DetailsResponseStoreEarly(p, i, ans) ==
    /\ req[p].pc = "details"
    /\ i \in DOMAIN req[p].det
    /\ req[p].det[i] = Pending
    /\ LET r == req[p]
           detailedVerses ==
               [r.det EXCEPT ![i] = IF ans.status = "2xx" THEN ans.verse
                                    ELSE Null]
           settled == \A j \in DOMAIN detailedVerses :
                          detailedVerses[j] # Pending
           result == Assemble(r, SelectSeq(detailedVerses,
                                           LAMBDA v : v # Pending))
       IN  /\ verseCache' = cacheSet(verseCache, r.key, result, now, p)
           /\ req' = [req EXCEPT ![p] =
                 IF settled
                 THEN Done([r EXCEPT !.det = detailedVerses,
                                     !.outcome = "ok", !.ret = result,
                                     !.stored = TRUE])
                 ELSE [r EXCEPT !.det = detailedVerses, !.stored = TRUE]]
    /\ UNCHANGED <<accounts, endpoints, now, ticks, accessToken, tokenExpiry, grantOf, issued,
                   started>>

DetailsResponse(p, i, ans) ==
    /\ req[p].pc = "details"
    /\ i \in DOMAIN req[p].det
    /\ req[p].det[i] = Pending
    /\ LET r == req[p]
           detailedVerses ==
               [r.det EXCEPT ![i] = IF ans.status = "2xx" THEN ans.verse
                                    ELSE Null]
           settled == \A j \in DOMAIN detailedVerses :
                          detailedVerses[j] # Pending
           result == Assemble(r, detailedVerses)
       IN  IF settled
           THEN /\ verseCache' = cacheSet(verseCache, r.key, result, now, p)
                /\ req' = [req EXCEPT ![p] =
                             Done([r EXCEPT !.det = detailedVerses,
                                            !.outcome = "ok", !.ret = result,
                                            !.stored = TRUE])]
           ELSE /\ verseCache' = verseCache
                /\ req' = [req EXCEPT ![p].det = detailedVerses]
    /\ UNCHANGED <<accounts, endpoints, now, ticks, accessToken, tokenExpiry, grantOf, issued,
                   started>>

\* the detail call of getVerseDetails in slot p is answered (247-276);
\* reading response.data.verse.translations throws when the body has no verse
VerseResponseStoreAlways(p, ans) ==
    /\ req[p].pc = "verse"
    /\ LET r == req[p]
           result == VerseResult(ans.verse)
       IN  /\ verseCache' = cacheSet(verseCache, r.key, result, now, p)
           /\ req' = [req EXCEPT ![p] =
                 IF ans.status = "2xx" /\ ans.verse # Undefined
                 THEN Done([r EXCEPT !.outcome = "ok", !.ret = result,
                                     !.stored = TRUE])
                 ELSE IF ans.status = "2xx" THEN Catch(r, ErrVerse)
                 ELSE CatchUpstream(r, ans.status)]
    /\ UNCHANGED <<accounts, endpoints, now, ticks, accessToken, tokenExpiry, grantOf, issued,
                   started>>

VerseResponse(p, ans) ==
    /\ req[p].pc = "verse"
    /\ LET r == req[p]
           result == VerseResult(ans.verse)
       IN  IF ans.status = "2xx" /\ ans.verse # Undefined
           THEN /\ verseCache' = cacheSet(verseCache, r.key, result, now, p)
                /\ req' = [req EXCEPT ![p] =
                             Done([r EXCEPT !.outcome = "ok", !.ret = result,
                                            !.stored = TRUE])]
           ELSE /\ verseCache' = verseCache
                /\ req' = [req EXCEPT ![p] =
                             IF ans.status = "2xx" THEN Catch(r, ErrVerse)
                             ELSE CatchUpstream(r, ans.status)]
    /\ UNCHANGED <<accounts, endpoints, now, ticks, accessToken, tokenExpiry, grantOf, issued,
                   started>>

(***************************************************************************)
(* The routes GET /api/quran/examples and GET /api/quran/verse/:reference  *)
(* (part_002:194-296).  optionalAuth (part_005:86-123) calls next() on     *)
(* every path, so the handler always runs.  A query parameter is a record: *)
(* absent from the query string, or present with a string value.           *)
(***************************************************************************)
Absent == [present |-> FALSE, s |-> <<>>]
Param(s) == [present |-> TRUE, s |-> s]

\* const { x = dflt } = req.query: the default replaces undefined only
OrElse(param, dflt) == IF param.present THEN param.s ELSE dflt

\* the values of ?word=, ?size=, ?translations= and ?page=, and of :reference
WordParams == { Absent, Param(<<>>), Param(<<"w">>) }
SizeParams ==
    { Absent, Param(<<>>), Param(<<"2">>), Param(<<"1", "0">>),
      Param(<<"1", "1">>), Param(<<"0">>), Param(<<"-", "1">>),
      Param(<<"x">>), Param(<<"2", "x">>) }
TranslationsParams == { Absent, Param(<<>>), Param(<<" ">>), Param(<<"1">>) }
PageParams == { Absent, Param(<<"1">>), Param(<<"0">>), Param(<<"1", "x">>) }
References ==
    { <<"2", ":", "5">>, <<"1", "2", ":", "3">>, <<"2", "5">>, <<"2", ":">>,
      <<":", "5">>, <<"2", ":", "5", ":", "1">>, <<"a", ":", "5">>,
      <<"2", ":", "5", " ">> }

\* the defaults of the destructuring (197, 258); String(2) and String(1) are
\* what parseInt reads of the numeric defaults
translationsDefault == <<"1", "6", "1", ",", "1", "3", "1">>
sizeDefault == <<"2">>
pageDefault == <<"1">>

IsDigit(c) == \E i \in 1..10 : DigitChars[i] = c
IsSpace(c) == c \in {" ", "\t", "\n"}

\* the index after the longest run of digits of s that starts at index i
RECURSIVE digitRun(_, _)
digitRun(s, i) ==
    IF i <= Len(s) /\ IsDigit(s[i]) THEN digitRun(s, i + 1) ELSE i

\* the value of the digits s[i], ..., s[j - 1]
RECURSIVE digitsValue(_, _, _)
digitsValue(s, i, j) ==
    IF j <= i THEN 0
    ELSE 10 * digitsValue(s, i, j - 1)
         + (CHOOSE d \in 0..9 : DigitChars[d + 1] = s[j - 1])

\* String.prototype.trim
RECURSIVE trimStart(_)
trimStart(s) ==
    IF s # <<>> /\ IsSpace(Head(s)) THEN trimStart(Tail(s)) ELSE s
RECURSIVE trimEnd(_)
trimEnd(s) ==
    IF s # <<>> /\ IsSpace(s[Len(s)]) THEN trimEnd(SubSeq(s, 1, Len(s) - 1))
    ELSE s
trim(s) == trimEnd(trimStart(s))

\* parseInt(s) of a string without the prefix 0x: leading white space and a
\* sign are skipped, the longest run of digits is read and what follows it
\* is ignored; NaN when there is no digit
parseInt(s) ==
    LET t == trimStart(s)
        signed == t # <<>> /\ t[1] \in {"+", "-"}
        first == IF signed THEN 2 ELSE 1
        last == digitRun(t, first)
    IN  IF last = first THEN NaN
        ELSE IF signed /\ t[1] = "-" THEN Num(0 - digitsValue(t, first, last))
        ELSE Num(digitsValue(t, first, last))

\* /^\d+:\d+$/.test(reference)  (268-269)
versePatternUnanchored(reference) ==
    \E i \in 1..Len(reference) :
        LET c == digitRun(reference, i)
        IN  /\ c > i /\ c <= Len(reference) /\ reference[c] = ":"
            /\ digitRun(reference, c + 1) > c + 1

versePattern(reference) ==
    LET c == digitRun(reference, 1)
    IN  /\ c > 1 /\ c <= Len(reference) /\ reference[c] = ":"
        /\ digitRun(reference, c + 1) > c + 1
        /\ digitRun(reference, c + 1) = Len(reference) + 1

\* the messages of the 400 answers
MsgWord == "Query parameter \"word\" is required"
MsgSize == "Size must be a number between 1 and 10"
MsgTranslations == "Translation IDs are required"
MsgPage == "Page must be a number greater than 0"
MsgReferenceRequired == "Verse reference is required (e.g., \"2:255\")"
MsgReference ==
    "Invalid verse reference format. Use format \"chapter:verse\" (e.g., \"2:255\")"

\* return res.status(400).json({success: false, message}): the request in
\* slot p is answered without a call of the service; the history keeps the
\* string the message is about
BadRequest(p, route, value, message) ==
    /\ req' = [req EXCEPT ![p] =
                 Done([Idle EXCEPT !.op = route, !.args = <<value>>,
                                   !.outcome = "400", !.err = message])]
    /\ started' = started + 1
    /\ UNCHANGED <<accounts, endpoints, now, ticks, accessToken, tokenExpiry, grantOf, issued,
                   verseCache>>

\* GET /api/quran/examples?word=&size=&translations=&page=  (194-247)
examplesRoute(p, word, size, translations, page) ==
    /\ req[p].pc = "idle"
    /\ LET requestedSize == parseInt(OrElse(size, sizeDefault))
           translationIds == OrElse(translations, translationsDefault)
           requestedPage == parseInt(OrElse(page, pageDefault))
       IN  IF ~word.present \/ word.s = <<>>
           THEN BadRequest(p, "examples", word.s, MsgWord)
           ELSE IF requestedSize = NaN \/ requestedSize.n < 1
                   \/ requestedSize.n > 10
           THEN BadRequest(p, "examples", size.s, MsgSize)
           ELSE IF translationIds = <<>> \/ trim(translationIds) = <<>>
           THEN BadRequest(p, "examples", translations.s, MsgTranslations)
           ELSE IF requestedPage = NaN \/ requestedPage.n < 1
           THEN BadRequest(p, "examples", page.s, MsgPage)
           ELSE getVerses(p, word.s, requestedSize.n, translationIds,
                          requestedPage.n)

\* GET /api/quran/verse/:reference?translations=  (254-296)
verseRoute(p, reference, translations) ==
    /\ req[p].pc = "idle"
    /\ LET translationIds == OrElse(translations, translationsDefault)
       IN  IF reference = <<>>
           THEN BadRequest(p, "verse", reference, MsgReferenceRequired)
           ELSE IF ~versePattern(reference)
           THEN BadRequest(p, "verse", reference, MsgReference)
           ELSE IF translationIds = <<>> \/ trim(translationIds) = <<>>
           THEN BadRequest(p, "verse", translations.s, MsgTranslations)
           ELSE getVerseDetails(p, reference, translationIds)

\* the caller has its answer; the slot is free again
Return(p) ==
    /\ req[p].pc = "done"
    /\ req' = [req EXCEPT ![p] = Idle]
    /\ UNCHANGED <<accounts, endpoints, now, ticks, accessToken, tokenExpiry, grantOf, issued,
                   verseCache, started>>

\* the upstream never answers the call invocation p is waiting for.  No
\* axios call passes a timeout or an abort signal (84-89, 141-153, 175-186,
\* 247-259) and axios has no timeout by default, so the await never settles
Stall(p) ==
    /\ req[p].pc \in {"token", "search", "details", "verse"}
    /\ req' = [req EXCEPT ![p].pc = "stalled"]
    /\ UNCHANGED <<accounts, endpoints, now, ticks, accessToken, tokenExpiry, grantOf, issued,
                   verseCache, started>>

\* time passes: Date.now() is d ms later
Tick(d) ==
    /\ now' = now + d
    /\ ticks' = ticks + 1
    /\ UNCHANGED <<accounts, endpoints, accessToken, tokenExpiry, grantOf, issued, verseCache,
                   started, req>>

\* the periodic check of the cache (checkperiod: 3600) deletes what expired
checkData ==
    /\ verseCache' = cacheCheckData(verseCache, now)
    /\ verseCache' # verseCache
    /\ UNCHANGED <<accounts, endpoints, now, ticks, accessToken, tokenExpiry, grantOf, issued,
                   started, req>>

(***************************************************************************)
(* The Authorization header and the Firebase ID token (part_005:8-55).     *)
(***************************************************************************)
Bearer == <<"B", "e", "a", "r", "e", "r", " ">>

\* String.prototype.startsWith
startsWith(s, prefix) ==
    Len(s) >= Len(prefix) /\ SubSeq(s, 1, Len(prefix)) = prefix

\* the least index from which sep occurs in s at or after from, 0 when none
indexOf(s, sep, from) ==
    LET at == { i \in from..(Len(s) - Len(sep) + 1) :
                   SubSeq(s, i, i + Len(sep) - 1) = sep }
    IN  IF at = {} THEN 0 ELSE CHOOSE i \in at : \A j \in at : i <= j

\* s.split(sep)[1]: undefined when sep does not occur in s, else what lies
\* between its first occurrence and the next one
splitSecond(s, sep) ==
    LET i == indexOf(s, sep, 1)
        j == indexOf(s, sep, i + Len(sep))
    IN  IF i = 0 THEN Absent
        ELSE IF j = 0 THEN Param(SubSeq(s, i + Len(sep), Len(s)))
        ELSE Param(SubSeq(s, i + Len(sep), j - 1))

\* the values of the header Authorization
Headers ==
    { Absent, Param(<<>>),
      Param(<<"B", "a", "s", "i", "c", " ", "a">>),
      Param(<<"b", "e", "a", "r", "e", "r", " ", "a">>),
      Param(Bearer),
      Param(Bearer \o <<"a">>), Param(Bearer \o <<"x">>),
      Param(Bearer \o <<"e">>), Param(Bearer \o <<"r">>) }

\* what Firebase knows of a token: the ID token of principal u1, an expired
\* one, a revoked one, or no ID token at all
Firebase(idToken) ==
    CASE idToken = <<"a">> -> [kind |-> "valid", uid |-> "u1"]
      [] idToken = <<"e">> -> [kind |-> "auth/id-token-expired", uid |-> ""]
      [] idToken = <<"r">> -> [kind |-> "auth/id-token-revoked", uid |-> ""]
      [] OTHER -> [kind |-> "auth/argument-error", uid |-> ""]

\* admin.auth().verifyIdToken(idToken)  (part_005:32)
verifyIdTokenDecodeOnly(idToken) ==
    [threw |-> FALSE, code |-> "", uid |-> "u1"]

verifyIdToken(idToken) ==
    [threw |-> Firebase(idToken).kind # "valid",
     code |-> Firebase(idToken).kind,
     uid |-> Firebase(idToken).uid]
(***************************************************************************)
(* The protected routes: actions.  authMiddleware (part_005:8-80) runs in  *)
(* front of POST /api/progress, POST /api/progress/batch and               *)
(* DELETE /api/progress/:wordId (routes/progressRoutes.js).  Every query   *)
(* of the database is awaited, so it is answered in a step of its own and  *)
(* requests of other slots may run in between.                             *)
(***************************************************************************)
\* the variables of the Quran service
quran ==
    <<now, ticks, accessToken, tokenExpiry, grantOf, issued, verseCache, req,
      endpoints>>

\* wordId values of the body or the path, and wordIds values of the body
WordIdArgs == {0, 1, 2, 9}
BatchArgs == { <<>>, <<1, 2>>, <<9>> }

\* res.status(status).json({ message }): the request is answered
Answer(s, status, message) ==
    [s EXCEPT !.pc = "done", !.status = status, !.message = message]

\* a request arrives with the header authHeader: the middleware up to its
\* first await (part_005:11-32)
authMiddleware(p, route, authHeader, wordId, wordIds) ==
    /\ sess[p].pc = "idle"
    /\ LET s == [NoSession EXCEPT !.route = route, !.wordId = wordId,
                                  !.wordIds = wordIds]
           idToken == splitSecond(authHeader.s, Bearer)
       IN  sess' = [sess EXCEPT ![p] =
             IF \/ ~authHeader.present \/ authHeader.s = <<>>
                \/ ~startsWith(authHeader.s, Bearer)
             THEN Answer(s, 401, MsgNoToken)
             ELSE IF ~idToken.present \/ idToken.s = <<>>
             THEN Answer(s, 401, MsgTokenFormat)
             ELSE [s EXCEPT !.pc = "verify", !.idToken = idToken.s]]
    /\ started' = started + 1
    /\ UNCHANGED <<users, odm, quran>>

\* verifyIdToken settles (part_005:32-65): a rejection is answered 401, else
\* findOrCreate issues its findOne (User.js:100)
VerifyResponse(p) ==
    /\ sess[p].pc = "verify"
    /\ LET s == sess[p]
           decodedToken == verifyIdToken(s.idToken)
       IN  sess' = [sess EXCEPT ![p] =
             IF decodedToken.threw
             THEN Answer(s, 401,
                    CASE decodedToken.code = "auth/id-token-expired" ->
                            MsgTokenExpired
                      [] decodedToken.code = "auth/id-token-revoked" ->
                            MsgTokenRevoked
                      [] OTHER -> MsgTokenInvalid)
             ELSE [s EXCEPT !.pc = "findOne", !.uid = decodedToken.uid,
                            !.verified = TRUE]]
    /\ UNCHANGED <<users, odm, started, quran>>

\* the findOne of findOrCreate is answered (User.js:100-115): without a
\* document create is issued, with one lastActive is set and save is issued
FindOneResponse(p) ==
    /\ sess[p].pc = "findOne"
    /\ LET s == sess[p]
           id == findOne(users, s.uid)
       IN  sess' = [sess EXCEPT ![p] =
             IF id = 0 THEN [s EXCEPT !.pc = "create"]
             ELSE [s EXCEPT !.pc = "saveActive",
                            !.user = Loaded(id, users[id])]]
    /\ UNCHANGED <<users, odm, started, quran>>

\* the route handler from next() to its first await
\* (progressRoutes.js:13-23, 71-74, 200-210)
handler(s) ==
    LET t == [s EXCEPT !.next = TRUE]
    IN  CASE s.route = "mark" ->
               IF s.wordId = 0 THEN Answer(t, 400, MsgWordIdRequired)
               ELSE [t EXCEPT !.pc = "word"]
          [] s.route = "unlearn" -> [t EXCEPT !.pc = "word"]
          [] OTHER ->
               IF s.wordIds = <<>> THEN Answer(t, 400, MsgWordIdsRequired)
               ELSE [t EXCEPT !.pc = "words"]

\* the create of findOrCreate is answered (User.js:103-118, part_005:65-79):
\* the unique index on firebaseUid (User.js:9-14) refuses a second document
\* for the uid, and the error is answered 500 by the middleware
CreateResponse(p) ==
    /\ sess[p].pc = "create"
    /\ LET s == sess[p]
       IN  IF findOne(users, s.uid) # 0
           THEN /\ users' = users
                /\ sess' = [sess EXCEPT ![p] = Answer(s, 500, MsgAuthFailed)]
           ELSE /\ users' = Append(users, NewUser(s.uid))
                /\ sess' = [sess EXCEPT ![p] =
                     handler([s EXCEPT !.user =
                                Loaded(Len(users) + 1, NewUser(s.uid))])]
    /\ UNCHANGED <<odm, started, quran>>

\* the save of findOrCreate is answered (User.js:114-118, part_005:65-71)
LastActiveSaved(p) ==
    /\ sess[p].pc = "saveActive"
    /\ LET s == sess[p]
           res == save(s.user, users[s.user.id], odm)
       IN  /\ users' = [users EXCEPT ![s.user.id] = res.doc]
           /\ sess' = [sess EXCEPT ![p] =
                IF res.threw THEN Answer(s, 500, MsgAuthFailed)
                ELSE handler([s EXCEPT !.user = res.user])]
    /\ UNCHANGED <<odm, started, quran>>

\* Word.findOne is answered: POST /api/progress (progressRoutes.js:25-45)
\* and DELETE /api/progress/:wordId (76-95) up to the save they await
WordResponse(p) ==
    /\ sess[p].pc = "word"
    /\ LET s == sess[p]
           learnt == hasLearnedWord(s.user, s.wordId)
       IN  sess' = [sess EXCEPT ![p] =
             IF ~WordFindOne(s.wordId) THEN Answer(s, 404, MsgWordNotFound)
             ELSE IF s.route = "mark" /\ learnt
             THEN Answer(s, 400, MsgAlreadyLearned)
             ELSE IF s.route = "mark"
             THEN [s EXCEPT !.pc = "save",
                            !.user = addLearnedWord(@, s.wordId,
                                                    frequency(s.wordId))]
             ELSE IF ~learnt THEN Answer(s, 400, MsgNotLearned)
             ELSE [s EXCEPT !.pc = "save",
                            !.user = unlearn(@, s.wordId,
                                             frequency(s.wordId))]]
    /\ UNCHANGED <<users, odm, started, quran>>

\* the loop of POST /api/progress/batch over s.words (progressRoutes.js:
\* 220-236): up to the save of the first word that is not learnt yet, or to
\* the answer when there is none
RECURSIVE batchLoop(_)
batchLoop(s) ==
    IF s.words = <<>> THEN Answer(s, 200, MsgBatch)
    ELSE IF hasLearnedWord(s.user, Head(s.words))
    THEN batchLoop([s EXCEPT !.words = Tail(@)])
    ELSE [s EXCEPT !.pc = "save",
                   !.user = addLearnedWord(@, Head(s.words),
                                           frequency(Head(s.words)))]

\* Word.find is answered: POST /api/progress/batch (progressRoutes.js:
\* 210-226)
WordsResponse(p) ==
    /\ sess[p].pc = "words"
    /\ LET s == sess[p]
           words == WordFind(s.wordIds)
       IN  sess' = [sess EXCEPT ![p] =
             IF words = <<>> THEN Answer(s, 404, MsgNoWords)
             ELSE batchLoop([s EXCEPT !.words = words])]
    /\ UNCHANGED <<users, odm, started, quran>>

\* the save a route awaits is answered (User.js:65, progressRoutes.js:
\* 45-61, 95-108, 223-239): an error goes to next(error) and is answered
\* 500, else the route answers or the batch loop goes on
SaveResponse(p) ==
    /\ sess[p].pc = "save"
    /\ LET s == sess[p]
           res == save(s.user, users[s.user.id], odm)
           saved == [s EXCEPT !.user = res.user]
       IN  /\ users' = [users EXCEPT ![s.user.id] = res.doc]
           /\ sess' = [sess EXCEPT ![p] =
                IF res.threw THEN Answer(s, 500, res.err)
                ELSE IF s.route = "mark"
                THEN Answer([saved EXCEPT !.learned = @ \cup {s.wordId}],
                            200, MsgLearned)
                ELSE IF s.route = "unlearn"
                THEN Answer(saved, 200, MsgRemoved)
                ELSE batchLoop([saved EXCEPT
                                  !.learned = @ \cup {Head(s.words)},
                                  !.words = Tail(@)])]
    /\ UNCHANGED <<odm, started, quran>>

\* the client has its answer; the slot is free again
Respond(p) ==
    /\ sess[p].pc = "done"
    /\ sess' = [sess EXCEPT ![p] = NoSession]
    /\ UNCHANGED <<users, odm, started, quran>>

(***************************************************************************)
(* The specifications of the protected routes, with either kind of         *)
(* Mongoose, every header above and every wordId and wordIds above.        *)
(*   SpecAccounts: up to MaxRequests requests, in flight together.         *)
(*   SpecSequential: up to MaxSequential requests, one at a time.          *)
(***************************************************************************)
Arrives(p) ==
    \/ \E authHeader \in Headers, wordId \in WordIdArgs :
          authMiddleware(p, "mark", authHeader, wordId, <<>>)
    \/ \E authHeader \in Headers, wordId \in WordIdArgs :
          authMiddleware(p, "unlearn", authHeader, wordId, <<>>)
    \/ \E authHeader \in Headers, wordIds \in BatchArgs :
          authMiddleware(p, "batch", authHeader, 0, wordIds)

Served ==
    \/ \E p \in Procs : VerifyResponse(p)
    \/ \E p \in Procs : FindOneResponse(p)
    \/ \E p \in Procs : CreateResponse(p)
    \/ \E p \in Procs : LastActiveSaved(p)
    \/ \E p \in Procs : WordResponse(p)
    \/ \E p \in Procs : WordsResponse(p)
    \/ \E p \in Procs : SaveResponse(p)
    \/ \E p \in Procs : Respond(p)

NextAccounts ==
    \/ started < MaxRequests /\ \E p \in Procs : Arrives(p)
    \/ Served

SpecAccounts == InitAccounts /\ [][NextAccounts]_vars

NextSequential ==
    \/ /\ started < MaxSequential
       /\ \A q \in Procs : sess[q].pc = "idle"
       /\ \E p \in Procs : Arrives(p)
    \/ Served

SpecSequential == InitAccounts /\ [][NextSequential]_vars

(***************************************************************************)
(* Spec: the three callers of the token (getVerses, getVerseDetails, the   *)
(* health route) on one query and one verse reference, with every answer   *)
(* the upstream can give, while the clock crosses the expiry buffer.       *)
(***************************************************************************)
Next ==
    \/ /\ started < MaxCalls
       /\ \E p \in Procs, s \in Sizes, pg \in Pages :
             getVerses(p, <<"w">>, s, <<"1">>, pg)
    \/ /\ started < MaxCalls
       /\ \E p \in Procs, ref \in VerseRefs : getVerseDetails(p, ref, <<"1">>)
    \/ /\ started < MaxCalls
       /\ \E p \in Procs : health(p)
    \/ \E p \in Procs : \E ans \in TokenAnswers(issued + 1) :
          TokenResponse(p, ans)
    \/ \E p \in Procs :
          /\ req[p].pc = "search"
          /\ \E ans \in SearchAnswers(req[p].args[4]) : SearchResponse(p, ans)
    \/ \E p \in Procs :
          /\ req[p].pc = "details"
          /\ \E i \in DOMAIN req[p].det :
                \E ans \in DetailAnswers(req[p].results[i]) :
                    DetailsResponse(p, i, ans)
    \/ \E p \in Procs : \E ans \in DetailAnswers(0) : VerseResponse(p, ans)
    \/ \E p \in Procs : Return(p)
    \/ ticks < MaxTicks /\ Tick(expiryBuffer)

Spec == Init /\ [][Next]_vars

(***************************************************************************)
(* SpecToken: the health route alone, with every answer the authorization  *)
(* endpoint can give, while the clock moves by 1 ms and by the 30 s buffer.*)
(***************************************************************************)
NextToken ==
    \/ /\ started < MaxCalls
       /\ \E p \in Procs : health(p)
    \/ \E p \in Procs : \E ans \in TokenAnswers(issued + 1) :
          TokenResponse(p, ans)
    \/ \E p \in Procs : Return(p)
    \/ /\ ticks < MaxTicks
       /\ \E d \in {1, expiryBuffer} : Tick(d)

SpecToken == Init /\ [][NextToken]_vars

(***************************************************************************)
(* The cache specifications: getVerses in front of an upstream that grants *)
(* tokens and answers every search (with or without results) and whose     *)
(* detail calls succeed or fail, while the clock moves by 1 ms and by the  *)
(* 24 h TTL of the cache and the periodic check of the cache runs at any   *)
(* time.                                                                   *)
(*   SpecCache: queries whose words and translation lists may contain a    *)
(*   colon.                                                                *)
(*   SpecRace: one query, asked up to MaxSameCalls times.                  *)
(***************************************************************************)
GrantAnswers(g) ==
    { a \in TokenAnswers(g) : a.status = "2xx" /\ a.expires_in = Num(60) }

FoundAnswers(page) ==
    { a \in SearchAnswers(page) :
        a.status = "2xx" /\ a.search /\ a.pagination.kind = "object" }

HydrateAnswers(k) ==
    { a \in DetailAnswers(k) : a.status = "error" \/ a.verse = Verse(k) }

\* the answers of the upstream and the passing of time
CacheEnvironment ==
    \/ \E p \in Procs : \E ans \in GrantAnswers(issued + 1) :
          TokenResponse(p, ans)
    \/ \E p \in Procs :
          /\ req[p].pc = "search"
          /\ \E ans \in FoundAnswers(req[p].args[4]) : SearchResponse(p, ans)
    \/ \E p \in Procs :
          /\ req[p].pc = "details"
          /\ \E i \in DOMAIN req[p].det :
                \E ans \in HydrateAnswers(req[p].results[i]) :
                    DetailsResponse(p, i, ans)
    \/ \E p \in Procs : Return(p)
    \/ /\ ticks < MaxTicks
       /\ \E d \in {1, stdTTL * 1000} : Tick(d)
    \/ checkData

NextCache ==
    \/ /\ started < MaxCalls
       /\ \E p \in Procs, w \in Words, s \in Sizes, tr \in Translations,
             pg \in Pages : getVerses(p, w, s, tr, pg)
    \/ CacheEnvironment

SpecCache == Init /\ [][NextCache]_vars

NextRace ==
    \/ /\ started < MaxSameCalls
       /\ \E p \in Procs, s \in Sizes, pg \in Pages :
             getVerses(p, <<"w">>, s, <<"1">>, pg)
    \/ CacheEnvironment

SpecRace == Init /\ [][NextRace]_vars

(***************************************************************************)
(* SpecStall: getVerses and getVerseDetails in front of an upstream that   *)
(* answers as in the cache specifications or leaves a call unanswered.     *)
(***************************************************************************)
NextStall ==
    \/ /\ started < MaxCalls
       /\ \E p \in Procs, s \in Sizes, pg \in Pages :
             getVerses(p, <<"w">>, s, <<"1">>, pg)
    \/ /\ started < MaxCalls
       /\ \E p \in Procs, ref \in VerseRefs : getVerseDetails(p, ref, <<"1">>)
    \/ \E p \in Procs : \E ans \in HydrateAnswers(0) : VerseResponse(p, ans)
    \/ \E p \in Procs : Stall(p)
    \/ CacheEnvironment

SpecStall == Init /\ [][NextStall]_vars

(***************************************************************************)
(* SpecRoutes: the two routes in front of the service, with every value of *)
(* the parameters above, and an upstream that grants tokens, finds verses  *)
(* and hydrates them or fails.                                             *)
(***************************************************************************)
NextRoutes ==
    \/ /\ started < MaxCalls
       /\ \E p \in Procs, word \in WordParams, size \in SizeParams,
             translations \in TranslationsParams, page \in PageParams :
                examplesRoute(p, word, size, translations, page)
    \/ /\ started < MaxCalls
       /\ \E p \in Procs, reference \in References,
             translations \in TranslationsParams :
                verseRoute(p, reference, translations)
    \/ \E p \in Procs : \E ans \in GrantAnswers(issued + 1) :
          TokenResponse(p, ans)
    \/ \E p \in Procs :
          /\ req[p].pc = "search"
          /\ \E ans \in FoundAnswers(req[p].args[4]) : SearchResponse(p, ans)
    \/ \E p \in Procs :
          /\ req[p].pc = "details"
          /\ \E i \in DOMAIN req[p].det :
                \E ans \in HydrateAnswers(req[p].results[i]) :
                    DetailsResponse(p, i, ans)
    \/ \E p \in Procs : \E ans \in HydrateAnswers(0) : VerseResponse(p, ans)
    \/ \E p \in Procs : Return(p)

SpecRoutes == Init /\ [][NextRoutes]_vars

(***************************************************************************)
(* SpecEnv: the service constructed with any value of QF_ENV, behind the   *)
(* health route and the two routes of SpecRoutes.                          *)
(***************************************************************************)
NextEnv ==
    \/ /\ started < MaxCalls
       /\ \E p \in Procs : health(p)
    \/ NextRoutes

SpecEnv == InitEnv /\ [][NextEnv]_vars

(***************************************************************************)
(* SpecFail: getVerses and getVerseDetails in front of an upstream that    *)
(* gives every answer, failures included, while entries of the cache       *)
(* expire and the periodic check runs.                                     *)
(***************************************************************************)
NextFail ==
    \/ /\ started < MaxCalls
       /\ \E p \in Procs, s \in Sizes, pg \in Pages :
             getVerses(p, <<"w">>, s, <<"1">>, pg)
    \/ /\ started < MaxCalls
       /\ \E p \in Procs, ref \in VerseRefs : getVerseDetails(p, ref, <<"1">>)
    \/ \E p \in Procs : \E ans \in TokenAnswers(issued + 1) :
          TokenResponse(p, ans)
    \/ \E p \in Procs :
          /\ req[p].pc = "search"
          /\ \E ans \in SearchAnswers(req[p].args[4]) : SearchResponse(p, ans)
    \/ \E p \in Procs :
          /\ req[p].pc = "details"
          /\ \E i \in DOMAIN req[p].det :
                \E ans \in DetailAnswers(req[p].results[i]) :
                    DetailsResponse(p, i, ans)
    \/ \E p \in Procs : \E ans \in DetailAnswers(0) : VerseResponse(p, ans)
    \/ \E p \in Procs : Return(p)
    \/ ticks < MaxTicks /\ Tick(stdTTL * 1000 + 1)
    \/ checkData

SpecFail == Init /\ [][NextFail]_vars

(***************************************************************************)
(* Steps and states the properties speak of.                               *)
(***************************************************************************)
\* invocation p ends in this step
Ends(p) == req[p].pc # "done" /\ req'[p].pc = "done"
\* an invocation of op starts in slot p in this step
Starts(p, op) == req[p].pc = "idle" /\ req'[p].op = op
\* the upstream calls of the invocation in slot p, so far
Upstream(r) == r.nToken + r.nSearch + r.nDetail
\* a token string and an expiry instant are held
TokenHeld == accessToken.kind = "string" /\ tokenExpiry.kind = "number"
\* the cache holds an entry for key that was stored at most 24 h ago
Unexpired(key) ==
    key \in DOMAIN verseCache /\ now <= verseCache[key].at + 24 * 60 * 60 * 1000

(***************************************************************************)
(* C1.  isTokenValid returns true exactly when a token and an expiry are   *)
(* held and expiry - now is strictly greater than 30 seconds: the health   *)
(* route reports tokenValid accordingly, and ensureValidToken requests a   *)
(* grant exactly when it does not hold.                                    *)
(***************************************************************************)
C1_Valid == TokenHeld /\ tokenExpiry.n - now > 30 * 1000

C1_TokenValidity ==
    [][\A p \in Procs :
         /\ Starts(p, "health") => (req'[p].pc = "token" <=> ~C1_Valid)
         /\ (Ends(p) /\ req'[p].outcome = "ok")
               => (req'[p].tokenValid = "true" <=> C1_Valid')]_vars

\* the health route reported tokenValid: false for a held token that expires
\* in exactly 30 seconds
C1_Witness ==
    \E p \in Procs :
        /\ req[p].op = "health" /\ req[p].pc = "done"
        /\ req[p].tokenValid = "false"
        /\ TokenHeld /\ tokenExpiry.n - now = 30 * 1000


C3_HitIsPure ==
    [][\A p \in Procs :
         (Starts(p, "getVerses") /\ Unexpired(req'[p].key))
            => /\ req'[p].pc = "done" /\ req'[p].outcome = "ok"
               /\ req'[p].ret = verseCache[req'[p].key].v
               /\ Upstream(req'[p]) = 0
               /\ UNCHANGED <<verseCache, accessToken, tokenExpiry>>]_vars

\* a getVerses invocation ended on a cache hit
C3_Witness ==
    \E p \in Procs :
        /\ req[p].op = "getVerses" /\ req[p].pc = "done" /\ req[p].hit
        /\ Unexpired(req[p].key)


(***************************************************************************)
(* C4.  As claimed: for every input tuple, once a getVerses call has       *)
(* returned successfully, a second call with the same tuple made within    *)
(* 24 h returns the identical payload and makes no upstream call.          *)
(* A search without results returns successfully but stores nothing.       *)
(***************************************************************************)
C4_Within(p) == now <= req[p].doneAt + 24 * 60 * 60 * 1000

C4_SecondCallCached ==
    [][\A p \in Procs : \A q \in Procs \ {p} :
         ( /\ req[p].op = "getVerses" /\ req[p].pc = "done"
           /\ req[p].outcome = "ok"
           /\ Starts(q, "getVerses") /\ req'[q].args = req[p].args
           /\ C4_Within(p) )
            => /\ req'[q].pc = "done"
               /\ req'[q].ret = req[p].ret
               /\ Upstream(req'[q]) = 0]_vars

(***************************************************************************)
(* C4, amended.  Once a getVerses call whose search found at least one     *)
(* verse key has returned successfully, a second call with the same tuple  *)
(* made within 24 h makes no upstream call and returns the payload stored  *)
(* under its key: the payload of the first call, unless another invocation *)
(* in flight at the same time has stored under that key since.             *)
(***************************************************************************)
C4_StoredThenCached ==
    [][\A p \in Procs : \A q \in Procs \ {p} :
         ( /\ req[p].op = "getVerses" /\ req[p].pc = "done"
           /\ req[p].outcome = "ok" /\ Len(req[p].results) > 0
           /\ Starts(q, "getVerses") /\ req'[q].args = req[p].args
           /\ C4_Within(p) )
            => /\ req'[q].pc = "done" /\ req'[q].outcome = "ok"
               /\ Upstream(req'[q]) = 0
               /\ req'[q].ret = verseCache[req[p].key].v
               /\ verseCache[req[p].key].by = p => req'[q].ret = req[p].ret]_vars

\* a second call with the tuple of a call that stored its result has
\* returned that payload without an upstream call
C4_Witness ==
    \E p \in Procs : \E q \in Procs \ {p} :
        /\ req[p].op = "getVerses" /\ req[p].pc = "done" /\ req[p].stored
        /\ req[q].op = "getVerses" /\ req[q].pc = "done" /\ req[q].hit
        /\ req[q].args = req[p].args /\ req[q].ret = req[p].ret
        /\ Upstream(req[q]) = 0

(***************************************************************************)
(* C5.  As claimed: the cache key is the exact tuple of the four inputs,   *)
(* so a getVerses call never receives a payload that was stored for a      *)
(* different tuple: the query of the payload it returns is its own word.   *)
(* The key is the four inputs joined by colons, and the word and the       *)
(* translation list may contain colons, so two tuples can share a key.     *)
(***************************************************************************)
C5_KeyIsTuple ==
    \A p \in Procs :
        (req[p].op = "getVerses" /\ req[p].pc = "done" /\ req[p].outcome = "ok")
            => req[p].ret.query = req[p].args[1]

(***************************************************************************)
(* C6.  As claimed: when the grant request fails (transport error, non-2xx *)
(* status, or a body without access_token and expires_in), the caller of   *)
(* ensureValidToken gets the authentication error and the held token and   *)
(* its expiry are unchanged.                                               *)
(* A 2xx answer with a body {} throws nothing and stores undefined and NaN.*)
(***************************************************************************)
C6_FailedGrantKeepsToken ==
    [][\A p \in Procs :
         (req[p].pc = "token" /\ req'[p].tokenAnswer # "none"
             /\ req'[p].tokenAnswer # "ok")
            => /\ req'[p].pc = "done" /\ req'[p].outcome = "error"
               /\ req'[p].err = "Failed to authenticate with Quran Foundation API"
               /\ UNCHANGED <<accessToken, tokenExpiry>>]_vars

(***************************************************************************)
(* C7.  In every reachable state the held token and the held expiry were   *)
(* taken from the same grant answer, whatever the interleaving of          *)
(* getVerses, getVerseDetails and health invocations.                      *)
(***************************************************************************)
C7_PairFromOneGrant == grantOf.tok = grantOf.exp

\* two grant requests were in flight at the same time and both answers
\* have been stored
C7_Witness ==
    \E p \in Procs : \E q \in Procs \ {p} :
        /\ req[p].raced /\ req[p].tokenAnswer = "ok"
        /\ req[q].tokenAnswer = "ok"
        /\ issued = 2 /\ grantOf.tok = 2


(***************************************************************************)
(* C8.  For a search with n result keys of which k detail calls fail       *)
(* (0 <= k <= n), getVerses reports success and returns exactly the n - k  *)
(* answers of the detail calls that did not fail, in search order; no      *)
(* failure of a detail call reaches the caller.                            *)
(***************************************************************************)
\* the detail calls of r that did not fail, and the j-th of them
C8_Hydrated(r) == { i \in DOMAIN r.det : r.det[i].kind # "null" }
C8_Nth(r, j) ==
    CHOOSE i \in C8_Hydrated(r) :
        Cardinality({ m \in C8_Hydrated(r) : m < i }) = j - 1

C8_PartialFanOut ==
    \A p \in Procs :
        LET r == req[p] IN
        (r.op = "getVerses" /\ r.pc = "done" /\ Len(r.results) > 0)
            => /\ r.outcome = "ok" /\ r.ret.success
               /\ Len(r.det) = Len(r.results)
               /\ Len(r.ret.results) = Cardinality(C8_Hydrated(r))
               /\ \A j \in 1..Len(r.ret.results) :
                     /\ r.ret.results[j] = r.det[C8_Nth(r, j)]
                     /\ r.ret.results[j].kind = "verse"
                           => r.ret.results[j].n = r.results[C8_Nth(r, j)]

\* getVerses has returned after the detail call for its first search result
\* failed and a later one answered with the verse
C8_Witness ==
    \E p \in Procs :
        /\ req[p].op = "getVerses" /\ req[p].pc = "done"
        /\ Len(req[p].results) >= 2
        /\ req[p].det[1] = Null
        /\ \E i \in 2..Len(req[p].det) : req[p].det[i].kind = "verse"

(***************************************************************************)
(* C9.  As claimed: no partial result is cached when a call of the         *)
(* invocation failed or timed out: after a getVerses invocation in which a *)
(* detail call failed, the cache holds no entry for its key with the       *)
(* result that lacks the failed verse.                                     *)
(* The code stores whatever it assembled.                                  *)
(***************************************************************************)
C9_NoPartialCached ==
    \A p \in Procs :
        (req[p].op = "getVerses" /\ req[p].pc = "done"
            /\ \E i \in DOMAIN req[p].det : req[p].det[i] = Null)
            => ~( /\ req[p].key \in DOMAIN verseCache
                  /\ verseCache[req[p].key].v = req[p].ret )

(***************************************************************************)
(* C10.  An entry stored at T is never returned by a read later than       *)
(* T + 24 h, whether or not the periodic check has run in between.         *)
(***************************************************************************)
C10_NoStaleHit ==
    [][\A p \in Procs :
         (req[p].pc = "idle" /\ req'[p].hit)
            => /\ req'[p].key \in DOMAIN verseCache
               /\ now <= verseCache[req'[p].key].at + 24 * 60 * 60 * 1000]_vars

\* a read found an entry that had expired and that the periodic check had
\* not removed, and went on as a miss
C10_Witness ==
    \E p \in Procs :
        /\ req[p].sawExpired /\ ~req[p].hit
        /\ req[p].pc \in {"token", "search"}

(***************************************************************************)
(* C11.  A search that is answered with zero result keys (an empty list,   *)
(* or a body without a search object) makes getVerses return success with  *)
(* an empty list of verses and the pagination the upstream reported, or    *)
(* {current_page: page, total_pages: 0, total_records: 0} when it reported *)
(* none, without any detail call.                                          *)
(***************************************************************************)
C11_EmptyShortCircuit ==
    [][\A p \in Procs :
         req[p].pc = "search" =>
           \A ans \in SearchAnswers(req[p].args[4]) :
             ( /\ SearchResponse(p, ans)
               /\ ans.status = "2xx"
               /\ (~ans.search \/ Len(ans.results) = 0) )
                => /\ req'[p].pc = "done" /\ req'[p].outcome = "ok"
                   /\ req'[p].ret.success
                   /\ req'[p].ret.results = <<>>
                   /\ req'[p].ret.pagination =
                         IF ans.search /\ ans.pagination.kind = "object"
                         THEN ans.pagination
                         ELSE [kind |-> "object",
                               current_page |-> req[p].args[4],
                               total_pages |-> 0, total_records |-> 0]
                   /\ req'[p].nDetail = 0]_vars

\* getVerses has returned the empty result with the zeroed pagination after
\* one search call and no detail call
C11_Witness ==
    \E p \in Procs :
        /\ req[p].op = "getVerses" /\ req[p].pc = "done" /\ ~req[p].hit
        /\ req[p].outcome = "ok" /\ req[p].ret.results = <<>>
        /\ req[p].ret.pagination.kind = "object"
        /\ req[p].ret.pagination.total_pages = 0
        /\ req[p].ret.pagination.total_records = 0
        /\ req[p].nSearch = 1 /\ req[p].nDetail = 0

(***************************************************************************)
(* C12.  As claimed: an empty search result is cached like a positive one: *)
(* after getVerses returned the result of a search without keys, a call    *)
(* with the same tuple within 24 h returns that empty result without an    *)
(* upstream call.                                                          *)
(* The empty-search branch returns before the cache is written.            *)
(***************************************************************************)
\* the invocation in slot p has returned the result of a search without keys
C12_ReturnedEmpty(p) ==
    /\ req[p].op = "getVerses" /\ req[p].pc = "done" /\ req[p].outcome = "ok"
    /\ ~req[p].hit /\ req[p].nSearch = 1 /\ Len(req[p].results) = 0

C12_EmptyIsCached ==
    [][\A p \in Procs : \A q \in Procs \ {p} :
         ( /\ C12_ReturnedEmpty(p)
           /\ Starts(q, "getVerses") /\ req'[q].args = req[p].args
           /\ C4_Within(p) )
            => /\ req'[q].pc = "done"
               /\ req'[q].ret = req[p].ret
               /\ Upstream(req'[q]) = 0]_vars

(***************************************************************************)
(* C12, amended.  An empty search result is not cached: the step in which  *)
(* getVerses returns the result of a search without keys leaves the cache  *)
(* unchanged, and a later call with the same tuple that finds no entry     *)
(* under its key goes upstream again (token or search call), so an         *)
(* upstream addition is visible at once.                                   *)
(***************************************************************************)
C12_EmptyNotCached ==
    [][\A p \in Procs :
         /\ (req[p].pc = "search" /\ req'[p].pc = "done"
                 /\ req'[p].outcome = "ok")
               => (~req'[p].stored /\ UNCHANGED verseCache)
         /\ \A q \in Procs \ {p} :
              ( /\ C12_ReturnedEmpty(p)
                /\ Starts(q, "getVerses") /\ req'[q].args = req[p].args
                /\ ~Unexpired(req[p].key) )
                 => /\ req'[q].pc \in {"token", "search"}
                    /\ Upstream(req'[q]) = 1]_vars

\* after a call returned the empty result, a call with the same tuple within
\* 24 h went upstream and returned verses
C12_Witness ==
    \E p \in Procs : \E q \in Procs \ {p} :
        /\ C12_ReturnedEmpty(p)
        /\ req[q].op = "getVerses" /\ req[q].pc = "done"
        /\ req[q].args = req[p].args /\ ~req[q].hit
        /\ req[q].nSearch = 1 /\ Len(req[q].ret.results) > 0
        /\ req[p].doneAt <= req[q].doneAt
        /\ req[q].doneAt <= req[p].doneAt + 24 * 60 * 60 * 1000

(***************************************************************************)
(* C13.  ensureValidToken returns the held token without a grant request   *)
(* when isTokenValid() is true; otherwise it makes one grant request and   *)
(* returns what getAccessToken returned, the token then held, or throws    *)
(* its error.  No invocation makes a second grant request.                 *)
(***************************************************************************)
C13_EnsureValid ==
    [][\A p \in Procs :
         \* the call of ensureValidToken: every start that is not a cache hit
         /\ (req[p].pc = "idle" /\ req'[p].pc # "idle" /\ ~req'[p].hit)
               => IF isTokenValid(accessToken, tokenExpiry, now)
                  THEN /\ req'[p].nToken = 0
                       /\ req'[p].pc # "token"
                       /\ req'[p].token = accessToken
                       /\ UNCHANGED <<accessToken, tokenExpiry>>
                  ELSE /\ req'[p].nToken = 1
                       /\ req'[p].pc = "token"
         \* the answer to its grant request
         /\ (req[p].pc = "token" /\ req'[p].pc # "token")
               => /\ req'[p].nToken = 1
                  /\ \/ /\ req'[p].pc = "done" /\ req'[p].outcome = "error"
                        /\ req'[p].tokenAnswer \in {"neterr", "non2xx", "nullbody"}
                     \/ /\ req'[p].tokenAnswer \in {"ok", "malformed"}
                        /\ req'[p].token = accessToken'
         /\ req'[p].nToken <= 1]_vars

\* one invocation was handed the held token without a grant request, and
\* another was handed the token of its own grant request
C13_Witness ==
    \E p \in Procs : \E q \in Procs \ {p} :
        /\ req[p].hadToken /\ req[p].nToken = 0
        /\ req[p].token.kind = "string"
        /\ req[q].nToken = 1 /\ req[q].tokenAnswer = "ok"
        /\ req[q].token.kind = "string"

(***************************************************************************)
(* C14.  As claimed: the failures that reach the caller of getVerses and   *)
(* getVerseDetails tell a failed credential exchange from a failed search  *)
(* or detail call: the error is the authentication error exactly when the  *)
(* grant request of the invocation failed.                                 *)
(* The catch blocks of both functions replace every error by their own.    *)
(***************************************************************************)
C14_KindsDistinct ==
    \A p \in Procs :
        ( /\ req[p].op \in {"getVerses", "getVerseDetails"}
          /\ req[p].pc = "done" /\ req[p].outcome = "error" )
            => ( req[p].err = "Failed to authenticate with Quran Foundation API"
                 <=> req[p].tokenAnswer \in {"neterr", "non2xx", "nullbody"} )

(***************************************************************************)
(* C15.  No invocation of getVerses or getVerseDetails makes more than two *)
(* grant requests or more than two attempts of its search / detail         *)
(* sequence, whatever the upstream answers.                                *)
(***************************************************************************)
C15_AtMostTwice ==
    \A p \in Procs :
        req[p].op \in {"getVerses", "getVerseDetails"}
            => /\ req[p].nToken <= 2
               /\ req[p].nSearch <= 2
               /\ req[p].op = "getVerseDetails" => req[p].nDetail <= 2
               /\ req[p].op = "getVerses"
                     => req[p].nDetail <= 2 * Len(req[p].results)

\* a getVerses invocation whose grant request succeeded and whose search call
\* was answered 401 has ended with an error, and a getVerseDetails invocation
\* whose detail call failed has ended with an error
C15_Witness ==
    \E p \in Procs : \E q \in Procs \ {p} :
        /\ req[p].op = "getVerses" /\ req[p].pc = "done"
        /\ req[p].outcome = "error" /\ req[p].saw401
        /\ req[p].nToken = 1 /\ req[p].nSearch = 1
        /\ req[q].op = "getVerseDetails" /\ req[q].pc = "done"
        /\ req[q].outcome = "error" /\ req[q].nDetail = 1

(***************************************************************************)
(* C16.  getVerseDetails: on an unexpired entry for its key it returns the *)
(* stored value without an upstream call; on a miss it makes one detail    *)
(* call after ensureValidToken and stores the result only when the answer  *)
(* is 2xx with a verse; an error status or a body without a verse ends the *)
(* invocation with the error 'Failed to fetch verse details' and leaves    *)
(* the cache unchanged.                                                    *)
(***************************************************************************)
C16_VerseDetails ==
    [][\A p \in Procs :
         /\ (Starts(p, "getVerseDetails") /\ Unexpired(req'[p].key))
               => /\ req'[p].pc = "done" /\ req'[p].outcome = "ok"
                  /\ req'[p].ret = verseCache[req'[p].key].v
                  /\ Upstream(req'[p]) = 0
                  /\ UNCHANGED verseCache
         /\ req[p].pc = "verse"
               => /\ req[p].nDetail = 1 /\ req[p].nSearch = 0
                  /\ \A ans \in DetailAnswers(0) :
                        VerseResponse(p, ans)
                          => /\ req'[p].pc = "done"
                             /\ req'[p].nDetail = 1
                             /\ IF ans.status = "2xx" /\ ans.verse.kind = "verse"
                                THEN /\ req'[p].outcome = "ok"
                                     /\ req'[p].ret.results = <<ans.verse>>
                                     /\ req[p].key \in DOMAIN verseCache'
                                     /\ verseCache'[req[p].key].v = req'[p].ret
                                ELSE /\ req'[p].outcome = "error"
                                     /\ req'[p].err = "Failed to fetch verse details"
                                     /\ UNCHANGED verseCache]_vars

\* a getVerseDetails invocation whose detail call was answered 2xx without a
\* verse has ended with the error, and the cache has no entry for its key
C16_Witness ==
    \E p \in Procs :
        /\ req[p].op = "getVerseDetails" /\ req[p].pc = "done"
        /\ req[p].outcome = "error" /\ req[p].nDetail = 1 /\ ~req[p].saw401
        /\ req[p].err = "Failed to fetch verse details"
        /\ req[p].key \notin DOMAIN verseCache

(***************************************************************************)
(* C17.  As claimed: every getVerses and getVerseDetails invocation        *)
(* returns or throws even when an upstream call never answers, because     *)
(* each call carries a timeout: an invocation that has neither returned    *)
(* nor thrown always has a step it can take.                               *)
(* The calls carry no timeout: an unanswered call leaves the invocation    *)
(* waiting with no step left.                                              *)
(***************************************************************************)
\* a step of the invocation in slot p
C17_Step(p) == NextStall /\ req'[p] # req[p]

C17_NoHang ==
    \A p \in Procs :
        (req[p].op \in {"getVerses", "getVerseDetails"} /\ req[p].pc # "done")
            => ENABLED C17_Step(p)

(***************************************************************************)
(* C18.  A request of GET /verse/:reference whose reference is not one or  *)
(* more digits, a colon and one or more digits is answered 400 with the    *)
(* invalid-reference message, and getVerseDetails is not invoked for it:   *)
(* no cache read, no grant request and no upstream call.                   *)
(***************************************************************************)
\* reference has the shape <integer>:<integer>
C18_ChapterVerse(reference) ==
    \E k \in 2..(Len(reference) - 1) :
        /\ reference[k] = ":"
        /\ \A i \in (1..Len(reference)) \ {k} :
              reference[i] \in {"0", "1", "2", "3", "4", "5", "6", "7", "8", "9"}

C18_InvalidReference ==
    [][\A p \in Procs : \A reference \in References :
         \A translations \in TranslationsParams :
           ( /\ req[p].pc = "idle"
             /\ req'[p].op \in {"verse", "getVerseDetails"}
             /\ verseRoute(p, reference, translations)
             /\ ~C18_ChapterVerse(reference) )
             => /\ req'[p].op = "verse" /\ req'[p].pc = "done"
                /\ req'[p].outcome = "400"
                /\ req'[p].err =
                     "Invalid verse reference format. Use format \"chapter:verse\" (e.g., \"2:255\")"
                /\ ~req'[p].hit /\ Upstream(req'[p]) = 0
                /\ UNCHANGED <<verseCache, accessToken, tokenExpiry>>]_vars

\* the reference 2:5:1 was answered 400 while the cache holds the verse 2:5
C18_Witness ==
    \E p \in Procs :
        /\ req[p].op = "verse" /\ req[p].pc = "done"
        /\ req[p].outcome = "400"
        /\ req[p].err =
             "Invalid verse reference format. Use format \"chapter:verse\" (e.g., \"2:255\")"
        /\ req[p].args = << <<"2", ":", "5", ":", "1">> >>
        /\ Upstream(req[p]) = 0
        /\ \E key \in DOMAIN verseCache :
              SubSeq(key, 1, 9) = <<"v", "e", "r", "s", "e", ":", "2", ":", "5">>

(***************************************************************************)
(* C19.  As claimed: GET /examples invokes getVerses only with a non-empty *)
(* word, an integer size in 1..10, a non-empty translation list and an     *)
(* integer page >= 1, and a request in which the word is missing or empty, *)
(* the size or the page is given and is not such an integer, or the        *)
(* translation list is given and is blank, is answered 400 without a cache *)
(* access or an upstream call.                                             *)
(* parseInt reads the leading digits and ignores what follows them, so     *)
(* size=2x and page=1x are accepted.                                       *)
(***************************************************************************)
\* s is the decimal notation of an integer in lo..hi
C19_IntegerIn(s, lo, hi) == \E n \in lo..hi : s = numToStr(n)

C19_WellFormed(word, size, translations, page) ==
    /\ word.present /\ word.s # <<>>
    /\ size.present => C19_IntegerIn(size.s, 1, 10)
    /\ translations.present
          => \E i \in 1..Len(translations.s) : translations.s[i] # " "
    /\ page.present => C19_IntegerIn(page.s, 1, 10)

C19_ExamplesBoundary ==
    [][\A p \in Procs : \A word \in WordParams, size \in SizeParams,
          translations \in TranslationsParams, page \in PageParams :
           ( /\ req[p].pc = "idle"
             /\ req'[p].op \in {"examples", "getVerses"}
             /\ examplesRoute(p, word, size, translations, page) )
             => IF C19_WellFormed(word, size, translations, page)
                THEN /\ req'[p].op = "getVerses"
                     /\ req'[p].args[1] # <<>>
                     /\ req'[p].args[2] \in 1..10
                     /\ req'[p].args[3] # <<>>
                     /\ req'[p].args[4] >= 1
                ELSE /\ req'[p].op = "examples" /\ req'[p].pc = "done"
                     /\ req'[p].outcome = "400"
                     /\ ~req'[p].hit /\ Upstream(req'[p]) = 0
                     /\ UNCHANGED <<verseCache, accessToken,
                                    tokenExpiry>>]_vars

(***************************************************************************)
(* C20.  The authorization URL and the content-API URL are those the       *)
(* constructor resolved from the environment tag: both production when the *)
(* tag is 'production', both pre-production for every other tag and when   *)
(* the tag is unset; no operation changes the tag or the two URLs.         *)
(***************************************************************************)
C20_MatchingPair ==
    \/ /\ environment = "production"
       /\ authUrl = "https://oauth2.quran.foundation"
       /\ apiBaseUrl = "https://apis.quran.foundation"
    \/ /\ environment # "production"
       /\ authUrl = "https://prelive-oauth2.quran.foundation"
       /\ apiBaseUrl = "https://apis-prelive.quran.foundation"

C20_EndpointsFixed ==
    [][ /\ C20_MatchingPair
        /\ C20_MatchingPair'
        /\ UNCHANGED <<environment, authUrl, apiBaseUrl>> ]_vars

\* a service constructed with a tag that is neither 'production' nor
\* 'prelive' has acquired a token and stored a result
C20_Witness ==
    /\ environment = "staging"
    /\ authUrl = "https://prelive-oauth2.quran.foundation"
    /\ accessToken.kind = "string"
    /\ verseCache # <<>>


(***************************************************************************)
(* C23.  Within one getVerses invocation that misses the cache the events  *)
(* are ordered: ensureValidToken returns (with the held token or after the *)
(* grant request was answered), then the search call is issued, then, when *)
(* its answer has arrived, the detail calls, and the cache is written in   *)
(* the step in which the last detail call settles, which is also the step  *)
(* in which the invocation returns.  No detail call is issued before the   *)
(* search answer and no entry is written while a detail call is pending.   *)
(***************************************************************************)
C23_Settled(r) == \A j \in DOMAIN r.det : r.det[j] # Pending

C23_Ordered ==
    [][\A p \in Procs :
         (req'[p].op = "getVerses" /\ ~req'[p].hit) =>
            \* the search call follows ensureValidToken
            /\ req'[p].nSearch > req[p].nSearch =>
                  /\ \/ req[p].pc = "idle" /\ req'[p].hadToken
                     \/ req[p].pc = "token" /\ req[p].op = "getVerses"
                  /\ req'[p].pc = "search"
                  /\ req'[p].nDetail = 0 /\ ~req'[p].stored
            \* the detail calls follow the answer of the search call
            /\ req'[p].nDetail > req[p].nDetail =>
                  /\ req[p].pc = "search" /\ req[p].op = "getVerses"
                  /\ req[p].nSearch = 1 /\ req[p].nDetail = 0
                  /\ req'[p].pc = "details" /\ ~req'[p].stored
            \* the store follows the last detail call and is followed by
            \* the return
            /\ (req'[p].stored /\ ~(req[p].op = "getVerses" /\ req[p].stored)) =>
                  /\ req[p].pc = "details" /\ req[p].op = "getVerses"
                  /\ C23_Settled(req'[p])
                  /\ req'[p].pc = "done"
                  /\ req'[p].key \in DOMAIN verseCache'
                  /\ verseCache'[req'[p].key].by = p
                  /\ verseCache'[req'[p].key].at = now
            \* the cache changes in no other step of the invocation
            /\ (req[p].op = "getVerses" /\ req[p].pc # "idle"
                /\ req'[p] # req[p] /\ ~req'[p].stored) =>
                  verseCache' = verseCache
      ]_vars

\* an invocation went through all the stages: a grant, the search, two
\* detail calls, the store
C23_Witness ==
    \E p \in Procs :
        /\ req[p].op = "getVerses" /\ req[p].pc = "done" /\ req[p].stored
        /\ req[p].nToken = 1 /\ req[p].nSearch = 1 /\ req[p].nDetail = 2
        /\ C23_Settled(req[p])
        /\ req[p].key \in DOMAIN verseCache /\ verseCache[req[p].key].by = p

(***************************************************************************)
(* C26.  Cache expiry is pure TTL.  The expiry instant of an entry is the  *)
(* instant it was stored plus 24 hours; a call that is answered from the   *)
(* cache leaves the cache, expiry instants included, as it was; and a call *)
(* made more than 24 hours after the entry was stored is not answered from *)
(* it, however often the entry was read in between.                        *)
(***************************************************************************)
C26_PureTTL ==
    [][/\ \A k \in DOMAIN verseCache' :
             verseCache'[k].t = verseCache'[k].at + 24 * 60 * 60 * 1000
       /\ \A p \in Procs :
             Starts(p, "getVerses") =>
                /\ req'[p].hit => verseCache' = verseCache
                /\ (/\ req'[p].key \in DOMAIN verseCache
                    /\ now > verseCache[req'[p].key].at + 24 * 60 * 60 * 1000)
                      => ~req'[p].hit /\ req'[p].sawExpired
      ]_vars

\* an entry was read from the cache and, 24 hours or less after that read,
\* a call with the same key found it expired
C26_Witness ==
    \E p \in Procs, q \in Procs :
        /\ req[q].op = "getVerses" /\ req[q].hit /\ req[q].pc = "done"
        /\ req[p].op = "getVerses" /\ req[p].key = req[q].key
        /\ req[p].sawExpired /\ ~req[p].hit
        /\ req[p].pc = "token"
        /\ req[q].doneAt > 0
        /\ now - req[q].doneAt <= 24 * 60 * 60 * 1000

(***************************************************************************)
(* C27.  Whenever ensureValidToken returns successfully, isTokenValid()    *)
(* evaluated at the same instant is true, for every expires_in the         *)
(* authorization endpoint may report: a health probe that succeeds, with   *)
(* the held token or with a well-formed grant, reports tokenValid = true.  *)
(***************************************************************************)
C27_HealthReportsValid ==
    \A p \in Procs :
        (/\ req[p].op = "health" /\ req[p].pc = "done"
         /\ req[p].outcome = "ok"
         /\ req[p].tokenAnswer \in {"none", "ok"})
            => req[p].tokenValid = "true"

(***************************************************************************)
(* C24.  Original statement: once an entry is stored for a key its payload *)
(* does not change until it expires; an invocation that completes second   *)
(* does not replace the entry stored by the first.                         *)
(***************************************************************************)
C24_InsertIfAbsent ==
    [][\A k \in DOMAIN verseCache :
          (Live(verseCache, k, now) /\ k \in DOMAIN verseCache')
             => verseCache'[k].v = verseCache[k].v
      ]_vars

(***************************************************************************)
(* C24, as the code behaves.  The cache write is an unconditional set: an  *)
(* invocation that stores replaces whatever is under its key by its own    *)
(* result with a fresh 24 h expiry, so of two identical misses in flight   *)
(* the one that completes second wins.  An entry changes in no other step. *)
(***************************************************************************)
C24_Entry(p) ==
    [v |-> req'[p].ret, t |-> now + 24 * 60 * 60 * 1000, at |-> now, by |-> p]

C24_LastWriterWins ==
    [][/\ \A p \in Procs :
             (Ends(p) /\ req'[p].stored) =>
                /\ req'[p].key \in DOMAIN verseCache'
                /\ verseCache'[req'[p].key] = C24_Entry(p)
       /\ \A k \in DOMAIN verseCache' :
             (k \notin DOMAIN verseCache \/ verseCache'[k] # verseCache[k])
                => \E p \in Procs :
                      /\ Ends(p) /\ req'[p].stored /\ req'[p].key = k
      ]_vars

\* the entry the first invocation stored was replaced, before it expired, by
\* the different result of the invocation that completed second
C24_Witness ==
    \E p \in Procs, q \in Procs :
        /\ p # q
        /\ req[p].pc = "done" /\ req[p].stored
        /\ req[q].pc = "done" /\ req[q].stored
        /\ req[p].key = req[q].key
        /\ req[p].key \in DOMAIN verseCache
        /\ verseCache[req[p].key].by = q
        /\ verseCache[req[p].key].v = req[q].ret
        /\ req[q].ret # req[p].ret
        /\ req[q].doneAt < req[p].doneAt + 24 * 60 * 60 * 1000
        /\ req[q].doneAt >= req[p].doneAt

(***************************************************************************)
(* C25.  A getVerses or getVerseDetails invocation that ends in a raised   *)
(* failure leaves the cache as it was.  The step in which it fails changes *)
(* nothing in the cache, it has stored nothing, and no step of an          *)
(* invocation that has not stored changes an entry a reader could get: the *)
(* only change such an invocation can make is that its opening read drops  *)
(* the entry under its own key when that entry had already expired.        *)
(***************************************************************************)
C25_Fails(p) ==
    /\ Ends(p) /\ req'[p].op \in {"getVerses", "getVerseDetails"}
    /\ req'[p].outcome = "error"

RECURSIVE SumFrequency(_)
SumFrequency(list) ==
    IF list = <<>> THEN 0 ELSE frequency(Head(list)) + SumFrequency(Tail(list))
\* a list has no element twice
NoDuplicate(list) ==
    \A i \in DOMAIN list, j \in DOMAIN list : list[i] = list[j] => i = j
\* the request in slot p is answered in this step
Answered(p) == sess[p].pc # "done" /\ sess'[p].pc = "done"

(***************************************************************************)
(* C21.  A request to a protected route with no Authorization header, with *)
(* a header that does not start with 'Bearer ', or with a token that       *)
(* verifyIdToken rejects is answered 401 in the step that finds it out:    *)
(* next() is not called, no user is attached, and no document of the       *)
(* collection is created or changed.  A request answered 401 never ran its *)
(* route handler and marked no word.                                       *)
(***************************************************************************)
C21_NoBearer(authHeader) ==
    ~authHeader.present \/ ~startsWith(authHeader.s, Bearer)

C21_Rejected(p) ==
    /\ sess'[p].pc = "done" /\ sess'[p].status = 401
    /\ ~sess'[p].next /\ ~sess'[p].user.present /\ sess'[p].learned = {}
    /\ users' = users

C21_Unauthorized ==
    [][\A p \in Procs :
         /\ (sess[p].pc = "idle" /\ sess'[p].pc # "idle") =>
               \A authHeader \in Headers :
                  (/\ C21_NoBearer(authHeader)
                   /\ \E route \in {"mark", "unlearn", "batch"},
                         wordId \in WordIdArgs, wordIds \in BatchArgs :
                            authMiddleware(p, route, authHeader, wordId,
                                           wordIds))
                     => C21_Rejected(p)
         /\ (/\ sess[p].pc = "verify" /\ sess'[p] # sess[p]
             /\ Firebase(sess[p].idToken).kind # "valid")
               => C21_Rejected(p)
         /\ (Answered(p) /\ sess'[p].status = 401) => C21_Rejected(p)
      ]_vars

\* a request with an expired token was answered 401 while the collection
\* held a user with a learned word
C21_Witness ==
    \E p \in Procs :
        /\ sess[p].pc = "done" /\ sess[p].status = 401
        /\ sess[p].message = MsgTokenExpired
        /\ \E i \in DOMAIN users : users[i].learnedWords # <<>>

(***************************************************************************)
(* C22.  The middleware finds or creates the user: under any interleaving  *)
(* of requests of one principal, two concurrent first requests included,   *)
(* exactly one document exists for the uid once a request got past         *)
(* findOrCreate, and every request whose token was verified proceeds to    *)
(* its route handler with that user attached.                              *)
(***************************************************************************)
C22_FindOrCreate ==
    \A p \in Procs :
        (sess[p].verified /\ sess[p].pc = "done") =>
            /\ sess[p].next /\ sess[p].user.present
            /\ Cardinality({ i \in DOMAIN users :
                               users[i].firebaseUid = sess[p].uid }) = 1
            /\ users[sess[p].user.id].firebaseUid = sess[p].uid

(***************************************************************************)
(* C28.  When the requests of a user are processed one at a time, after    *)
(* any sequence of POST /api/progress, POST /api/progress/batch and        *)
(* DELETE /api/progress/:wordId the stored totalFrequencyKnown is the sum  *)
(* of the frequencies of the words in the stored learnedWords, and it is   *)
(* not negative.                                                           *)
(***************************************************************************)
C28_TotalIsSum ==
    \A i \in DOMAIN users :
        /\ users[i].totalFrequencyKnown = SumFrequency(users[i].learnedWords)
        /\ users[i].totalFrequencyKnown >= 0

\* a word was unlearned after three writes of learnedWords, and a learned
\* word is left
C28_Witness ==
    \E p \in Procs :
        /\ sess[p].route = "unlearn" /\ sess[p].pc = "done"
        /\ sess[p].status = 200
        /\ sess[p].user.present
        /\ users[sess[p].user.id].learnedWords # <<>>
        /\ users[sess[p].user.id].v = 3
        /\ users[sess[p].user.id].totalFrequencyKnown > 0

(***************************************************************************)
(* C29.  When two progress requests of one user are processed              *)
(* concurrently, each with its own copy of the document, no update is      *)
(* lost: once both are answered, the stored learnedWords holds every word  *)
(* that either request reported as marked learned, and the stored          *)
(* totalFrequencyKnown is the sum of the frequencies of the stored words.  *)
(***************************************************************************)
C29_NoLostUpdate ==
    (/\ started = 2
     /\ \A p \in Procs :
           sess[p].pc = "done" /\ sess[p].route \in {"mark", "batch"})
       => \A p \in Procs :
             sess[p].user.present =>
                LET doc == users[sess[p].user.id]
                IN  /\ \A w \in sess[p].learned : hasLearnedWord(doc, w)
                    /\ doc.totalFrequencyKnown
                          = SumFrequency(doc.learnedWords)

(***************************************************************************)
(* C30.  After any sequence of progress requests no stored document has a  *)
(* word id twice in learnedWords; and a POST /api/progress for a word that *)
(* is in the stored learnedWords is answered 400 'already learned', no     *)
(* step of it changing the stored learnedWords or totalFrequencyKnown.     *)
(***************************************************************************)
C30_Stored(p) ==
    /\ sess'[p].route = "mark" /\ sess'[p].user.present
    /\ sess'[p].user.id \in DOMAIN users
    /\ \E k \in DOMAIN users[sess'[p].user.id].learnedWords :
          users[sess'[p].user.id].learnedWords[k] = sess'[p].wordId

=============================================================================
